---- MODULE Spec2Model ----
(***************************************************************************)
(* Verification model of the analytics core of nifty-insight-radar.       *)
(*                                                                         *)
(* Signal Engine: server/utils/scenario_logic.py (generate_signal), with  *)
(* the indicator functions of server/app/utils/indicators.py and the      *)
(* level formulas of server/app/utils/cpr.py that it calls.               *)
(*                                                                         *)
(* Python floats are modelled as exact rationals <<n, d>> in lowest terms  *)
(* (d > 0), so that every comparison of the code is decided exactly.      *)
(***************************************************************************)
EXTENDS Integers, Sequences, FiniteSets, TLC

\* ------------------------------------------------------------------------
\* Floating point arithmetic, as exact rational arithmetic
\* ------------------------------------------------------------------------

RECURSIVE GCD(_, _)
GCD(a, b) == IF b = 0 THEN a ELSE GCD(b, a % b)

IAbs(n) == IF n < 0 THEN -n ELSE n

\* the rational n/d (d # 0) in lowest terms with a positive denominator
Q(n, d) ==
    LET g == GCD(IAbs(n), IAbs(d))
        s == IF d < 0 THEN -1 ELSE 1
    IN  <<(s * n) \div g, (s * d) \div g>>

\* an integer as a float
F(n) == <<n, 1>>

QAdd(a, b) ==
    LET g == GCD(a[2], b[2])
        l == (a[2] \div g) * b[2]
    IN  Q(a[1] * (l \div a[2]) + b[1] * (l \div b[2]), l)

QNeg(a) == <<-a[1], a[2]>>

QSub(a, b) == QAdd(a, QNeg(b))

\* cross-cancelling keeps the intermediate products small
QMul(a, b) ==
    LET g1 == GCD(IAbs(a[1]), b[2])
        g2 == GCD(IAbs(b[1]), a[2])
        h1 == IF g1 = 0 THEN 1 ELSE g1
        h2 == IF g2 = 0 THEN 1 ELSE g2
    IN  Q((a[1] \div h1) * (b[1] \div h2), (a[2] \div h2) * (b[2] \div h1))

\* a / b for b # 0 (Python raises ZeroDivisionError for b = 0: the callers
\* test QIsZero first and record the error outcome)
QDiv(a, b) == QMul(a, Q(b[2], b[1]))

QIsZero(a) == a[1] = 0

QLt(a, b) ==
    LET g == GCD(a[2], b[2])
    IN  a[1] * (b[2] \div g) < b[1] * (a[2] \div g)

QLe(a, b) == ~QLt(b, a)

QAbs(a) == <<IAbs(a[1]), a[2]>>

QMax(a, b) == IF QLt(a, b) THEN b ELSE a

QMin(a, b) == IF QLt(b, a) THEN b ELSE a

\* int(x): truncation towards zero
QInt(a) == IF a[1] >= 0 THEN a[1] \div a[2] ELSE -((-a[1]) \div a[2])

\* round(x, 2): to the nearest multiple of 1/100, a tie to the even one
Round2(a) ==
    LET n == a[1] * 100
        q == n \div a[2]
        r == n % a[2]
        k == IF 2 * r < a[2] THEN q
             ELSE IF 2 * r > a[2] THEN q + 1
             ELSE IF q % 2 = 0 THEN q ELSE q + 1
    IN  Q(k, 100)

\* ------------------------------------------------------------------------
\* Python list helpers
\* ------------------------------------------------------------------------

\* seq[-n:]
LastN(seq, n) ==
    IF Len(seq) <= n THEN seq ELSE SubSeq(seq, Len(seq) - n + 1, Len(seq))

RECURSIVE SumInt(_)
SumInt(seq) == IF seq = <<>> THEN 0 ELSE Head(seq) + SumInt(Tail(seq))

IMax(a, b) == IF a < b THEN b ELSE a

IMin(a, b) == IF b < a THEN b ELSE a

RECURSIVE MaxOf(_)
MaxOf(seq) == IF Len(seq) = 1 THEN seq[1] ELSE IMax(Head(seq), MaxOf(Tail(seq)))

RECURSIVE MinOf(_)
MinOf(seq) == IF Len(seq) = 1 THEN seq[1] ELSE IMin(Head(seq), MinOf(Tail(seq)))

\* ------------------------------------------------------------------------
\* Indicator Engine (server/app/utils/indicators.py)
\* A candle is [time, open, high, low, close, volume]; time is the calendar
\* day of the bar, prices and volume are whole ticks.
\* ------------------------------------------------------------------------

ATR_PERIOD == 14

RSI_PERIOD == 14

VOLUME_MA_PERIOD == 20

RETEST_BARS == 5

RANGE_BARS == 14

\* _ema: the EMA series of values, seeded with the first value
RECURSIVE _ema(_, _)
_ema(values, period) ==
    IF values = <<>> THEN <<>>
    ELSE IF Len(values) = 1 THEN <<F(values[1])>>
    ELSE LET k    == Q(2, period + 1)
             prev == _ema(SubSeq(values, 1, Len(values) - 1), period)
             v    == F(values[Len(values)])
         IN  Append(prev, QAdd(QMul(v, k), QMul(prev[Len(prev)], QSub(F(1), k))))

\* calculate_emas, for one period: the last value of the series
calculate_ema(candles, period) ==
    LET series == _ema([i \in 1..Len(candles) |-> candles[i].close], period)
    IN  series[Len(series)]

\* the true ranges trs[0..] of candles[1..]
TrueRanges(candles) ==
    [i \in 1..(Len(candles) - 1) |->
        LET high == candles[i + 1].high
            low == candles[i + 1].low
            prev_close == candles[i].close
        IN  IMax(high - low, IMax(IAbs(high - prev_close), IAbs(low - prev_close)))]

calculate_atr(candles, period) ==
    IF Len(candles) < period + 1 THEN F(0)
    ELSE LET recent_trs == LastN(TrueRanges(candles), period)
         IN  Q(SumInt(recent_trs), Len(recent_trs))

\* calculate_rsi with the history test off by one (len(candles) < period)
calculate_rsi_short_history(candles, period) ==
    IF Len(candles) < period THEN F(50)
    ELSE LET change == [i \in 1..(Len(candles) - 1) |->
                           candles[i + 1].close - candles[i].close]
             gains  == [i \in 1..Len(change) |-> IMax(change[i], 0)]
             losses == [i \in 1..Len(change) |-> IMax(-change[i], 0)]
             avg_gain == Q(SumInt(LastN(gains, period)), period)
             avg_loss == Q(SumInt(LastN(losses, period)), period)
         IN  IF QIsZero(avg_loss) THEN F(100)
             ELSE LET rs == QDiv(avg_gain, avg_loss)
                  IN  QSub(F(100), QDiv(F(100), QAdd(F(1), rs)))

calculate_rsi(candles, period) ==
    IF Len(candles) < period + 1 THEN F(50)
    ELSE LET change == [i \in 1..(Len(candles) - 1) |->
                           candles[i + 1].close - candles[i].close]
             gains  == [i \in 1..Len(change) |-> IMax(change[i], 0)]
             losses == [i \in 1..Len(change) |-> IMax(-change[i], 0)]
             avg_gain == Q(SumInt(LastN(gains, period)), period)
             avg_loss == Q(SumInt(LastN(losses, period)), period)
         IN  IF QIsZero(avg_loss) THEN F(100)
             ELSE LET rs == QDiv(avg_gain, avg_loss)
                  IN  QSub(F(100), QDiv(F(100), QAdd(F(1), rs)))

\* calculate_volume_ma dividing by the period whatever the number of volumes
calculate_volume_ma_by_period(candles, period) ==
    LET last == LastN(candles, period)
        vols == [i \in 1..Len(last) |-> last[i].volume]
    IN  IF vols = <<>> THEN F(0) ELSE Q(SumInt(vols), period)

calculate_volume_ma(candles, period) ==
    LET last == LastN(candles, period)
        vols == [i \in 1..Len(last) |-> last[i].volume]
    IN  IF vols = <<>> THEN F(0) ELSE Q(SumInt(vols), Len(vols))

STOCH_PERIOD == 14

EMA_PERIODS == <<9, 21, 50, 200>>

Closes(candles) == [i \in 1..Len(candles) |-> candles[i].close]

\* calculate_vwap: cumulative typical price x volume over cumulative volume
calculate_vwap(candles) ==
    LET pv == [i \in 1..Len(candles) |->
                  (candles[i].high + candles[i].low + candles[i].close)
                      * candles[i].volume]
        vol == [i \in 1..Len(candles) |-> candles[i].volume]
        cumulative_pv == Q(SumInt(pv), 3)
        cumulative_volume == SumInt(vol)
    IN  IF cumulative_volume # 0
        THEN QDiv(cumulative_pv, F(cumulative_volume))
        ELSE F(0)

\* %K of a window: the position of its last close between the lowest low and
\* the highest high, 50 when these are equal
StochK(window) ==
    LET highest_high == MaxOf([i \in 1..Len(window) |-> window[i].high])
        lowest_low == MinOf([i \in 1..Len(window) |-> window[i].low])
        current_close == window[Len(window)].close
    IN  IF highest_high = lowest_low THEN F(50)
        ELSE Q((current_close - lowest_low) * 100, highest_high - lowest_low)

\* calculate_stochastic: <<%K, %D>>; ks are the %K of the last period,
\* period - 1 and period - 2 candles
calculate_stochastic(candles, period) ==
    IF Len(candles) < period THEN <<F(50), F(50)>>
    ELSE LET k == StochK(LastN(candles, period))
             ks == [i \in 1..3 |-> StochK(LastN(candles, period - (i - 1)))]
             d == QDiv(QAdd(QAdd(ks[1], ks[2]), ks[3]), F(3))
         IN  <<k, d>>

\* calculate_emas: ema_series[-1] of an empty series raises IndexError
calculate_emas(candles, periods) ==
    IF candles = <<>> THEN "IndexError"
    ELSE [i \in 1..Len(periods) |->
             LET ema_series == _ema(Closes(candles), periods[i])
             IN  ema_series[Len(ema_series)]]

\* compute_indicators: the dictionary of latest values, or the exception
compute_indicators(candles) ==
    IF candles = <<>> THEN [raised |-> "IndexError"]
    ELSE LET emas == calculate_emas(candles, EMA_PERIODS)
             stoch == calculate_stochastic(candles, STOCH_PERIOD)
         IN  [raised |-> "",
              ema9 |-> emas[1], ema21 |-> emas[2], ema50 |-> emas[3],
              ema200 |-> emas[4],
              vwap |-> calculate_vwap(candles),
              atr |-> calculate_atr(candles, ATR_PERIOD),
              rsi |-> calculate_rsi(candles, RSI_PERIOD),
              stoch_k |-> stoch[1], stoch_d |-> stoch[2],
              volume_ma |-> calculate_volume_ma(candles, VOLUME_MA_PERIOD)]

\* an entry of a series: the candle's time and None (<<>>) or <<value>>
Entry(candles, i, value) == [time |-> candles[i].time, value |-> value]

Absent == <<>>

ema_series(candles, p) ==
    LET ema_values == _ema(Closes(candles), p)
    IN  [i \in 1..Len(candles) |-> Entry(candles, i, <<ema_values[i]>>)]

vwap_series(candles) ==
    [i \in 1..Len(candles) |->
        Entry(candles, i, <<calculate_vwap(SubSeq(candles, 1, i))>>)]

\* trs holds the true ranges of candles 2..i when entry i is written
atr_series(candles) ==
    LET all == TrueRanges(candles)
    IN  [i \in 1..Len(candles) |->
            LET trs == SubSeq(all, 1, i - 1)
            IN  Entry(candles, i,
                      IF i = 1 \/ Len(trs) < ATR_PERIOD THEN Absent
                      ELSE <<Q(SumInt(LastN(trs, ATR_PERIOD)), ATR_PERIOD)>>)]

rsi_series(candles) ==
    LET change == [i \in 1..(Len(candles) - 1) |->
                      candles[i + 1].close - candles[i].close]
    IN  [i \in 1..Len(candles) |->
            LET gains  == [j \in 1..(i - 1) |-> IMax(change[j], 0)]
                losses == [j \in 1..(i - 1) |-> IMax(-change[j], 0)]
                avg_gain == Q(SumInt(LastN(gains, RSI_PERIOD)), RSI_PERIOD)
                avg_loss == Q(SumInt(LastN(losses, RSI_PERIOD)), RSI_PERIOD)
            IN  Entry(candles, i,
                      IF i = 1 \/ Len(gains) < RSI_PERIOD THEN Absent
                      ELSE IF QIsZero(avg_loss) THEN <<F(100)>>
                      ELSE <<QSub(F(100),
                                  QDiv(F(100), QAdd(F(1), QDiv(avg_gain, avg_loss))))>>)]

\* k_values: the %K of every window of STOCH_PERIOD candles up to candle i
KValues(candles, i) ==
    [j \in 1..(i - STOCH_PERIOD + 1) |->
        StochK(SubSeq(candles, j, j + STOCH_PERIOD - 1))]

stoch_k_series(candles) ==
    [i \in 1..Len(candles) |->
        Entry(candles, i,
              IF i < STOCH_PERIOD THEN Absent
              ELSE <<StochK(SubSeq(candles, i - STOCH_PERIOD + 1, i))>>)]

stoch_d_series(candles) ==
    [i \in 1..Len(candles) |->
        Entry(candles, i,
              IF i < STOCH_PERIOD THEN Absent
              ELSE LET k_values == KValues(candles, i)
                       n == Len(k_values)
                   IN  IF n < 3 THEN Absent
                       ELSE <<QDiv(QAdd(QAdd(k_values[n - 2], k_values[n - 1]),
                                        k_values[n]), F(3))>>)]

vol_ma_series(candles) ==
    LET volumes == [i \in 1..Len(candles) |-> candles[i].volume]
    IN  [i \in 1..Len(candles) |->
            Entry(candles, i,
                  IF i < VOLUME_MA_PERIOD THEN Absent
                  ELSE <<Q(SumInt(SubSeq(volumes, i - VOLUME_MA_PERIOD + 1, i)),
                           VOLUME_MA_PERIOD)>>)]

compute_indicator_series(candles) ==
    [ema |-> [i \in 1..Len(EMA_PERIODS) |-> ema_series(candles, EMA_PERIODS[i])],
     vwap |-> vwap_series(candles),
     atr |-> atr_series(candles),
     rsi |-> rsi_series(candles),
     stoch_k |-> stoch_k_series(candles),
     stoch_d |-> stoch_d_series(candles),
     volume_ma |-> vol_ma_series(candles)]

\* ------------------------------------------------------------------------
\* Level Engine (server/app/utils/cpr.py)
\* ------------------------------------------------------------------------

\* prev_cpr_width = None
NoWidth == <<>>

NARROW_THRESHOLD == Q(6, 10)

WIDE_THRESHOLD == Q(14, 10)

\* compute_cpr_levels(prev_high, prev_low, prev_close, prev_cpr_width)
\* compute_cpr_levels with tc halfway between bc and pivot
compute_cpr_levels_tc_halfway(prev_high, prev_low, prev_close, prev_cpr_width) ==
    LET pivot == QDiv(QAdd(QAdd(prev_high, prev_low), prev_close), F(3))
        bc    == QDiv(QAdd(prev_high, prev_low), F(2))
        tc    == QDiv(QAdd(bc, pivot), F(2))
        range == QSub(prev_high, prev_low)
    IN  [pivot |-> pivot, bc |-> bc, tc |-> tc,
         s1 |-> QSub(QMul(F(2), pivot), prev_high),
         s2 |-> QSub(pivot, range),
         s3 |-> QSub(QSub(pivot, range), range),
         r1 |-> QSub(QMul(F(2), pivot), prev_low),
         r2 |-> QAdd(pivot, range),
         r3 |-> QAdd(QAdd(pivot, range), range),
         cpr_type |-> "normal"]

\* compute_cpr_levels with s2 and r2 taking each other's sign of the range
compute_cpr_levels_s2_r2_swapped(prev_high, prev_low, prev_close, prev_cpr_width) ==
    LET pivot == QDiv(QAdd(QAdd(prev_high, prev_low), prev_close), F(3))
        bc    == QDiv(QAdd(prev_high, prev_low), F(2))
        range == QSub(prev_high, prev_low)
        s2    == QAdd(pivot, range)
        r2    == QSub(pivot, range)
    IN  [pivot |-> pivot, bc |-> bc, tc |-> QAdd(pivot, QSub(pivot, bc)),
         s1 |-> QSub(QMul(F(2), pivot), prev_high),
         s2 |-> s2,
         s3 |-> QSub(s2, range),
         r1 |-> QSub(QMul(F(2), pivot), prev_low),
         r2 |-> r2,
         r3 |-> QAdd(r2, range),
         cpr_type |-> "normal"]

compute_cpr_levels(prev_high, prev_low, prev_close, prev_cpr_width) ==
    LET pivot == QDiv(QAdd(QAdd(prev_high, prev_low), prev_close), F(3))
        bc    == QDiv(QAdd(prev_high, prev_low), F(2))
        tc    == QAdd(pivot, QSub(pivot, bc))
        r1    == QSub(QMul(F(2), pivot), prev_low)
        s1    == QSub(QMul(F(2), pivot), prev_high)
        r2    == QAdd(pivot, QSub(prev_high, prev_low))
        s2    == QSub(pivot, QSub(prev_high, prev_low))
        r3    == QAdd(r2, QSub(prev_high, prev_low))
        s3    == QSub(s2, QSub(prev_high, prev_low))
        width == QSub(tc, bc)
        cpr_type ==
            IF prev_cpr_width = NoWidth THEN "normal"
            ELSE IF QIsZero(prev_cpr_width) THEN "ZeroDivisionError"
            ELSE LET ratio == QDiv(width, prev_cpr_width)
                 IN  IF QLe(ratio, NARROW_THRESHOLD) THEN "narrow"
                     ELSE IF QLe(WIDE_THRESHOLD, ratio) THEN "wide"
                     ELSE "normal"
    IN  [pivot |-> pivot, bc |-> bc, tc |-> tc,
         s1 |-> s1, s2 |-> s2, s3 |-> s3,
         r1 |-> r1, r2 |-> r2, r3 |-> r3, cpr_type |-> cpr_type]

\* ------------------------------------------------------------------------
\* Signal Engine (server/utils/scenario_logic.py)
\* ------------------------------------------------------------------------

\* advanced_filters without the key "minRiskRewardRatio"
NoKey == <<>>

\* the calendar days a candle's time can fall on
Today == "today"

PrevDay == "prev"

\* lines 73-108: the first LevelsDaily row of today, or the levels computed
\* from yesterday's candles of the window (the latest candle if there are
\* none), which are then added to the table
PrevCandles(candles) == SelectSeq(candles, LAMBDA c : c.time = PrevDay)

ComputedLevels(candles) ==
    LET prev_candles  == PrevCandles(candles)
        latest_candle == candles[Len(candles)]
        highs == [i \in 1..Len(prev_candles) |-> prev_candles[i].high]
        lows  == [i \in 1..Len(prev_candles) |-> prev_candles[i].low]
    IN  IF prev_candles # <<>>
        THEN compute_cpr_levels(F(MaxOf(highs)), F(MinOf(lows)),
                                F(prev_candles[Len(prev_candles)].close), NoWidth)
        ELSE compute_cpr_levels(F(latest_candle.high), F(latest_candle.low),
                                F(latest_candle.close), NoWidth)

LevelEntry(candles, table) ==
    IF table # <<>> THEN table[1] ELSE ComputedLevels(candles)

\* LevelsAfter storing the levels of the latest candle, whatever the levels
\* the call used
LevelsAfterFromLatest(candles, table) ==
    LET latest_candle == candles[Len(candles)]
    IN  IF table # <<>> THEN table
        ELSE <<compute_cpr_levels(F(latest_candle.high), F(latest_candle.low),
                                  F(latest_candle.close), NoWidth)>>

LevelsAfter(candles, table) ==
    IF table # <<>> THEN table ELSE <<ComputedLevels(candles)>>

\* lines 117-125: risk configuration, with the defaults
DEFAULT_RISK_PER_TRADE == 1000

DEFAULT_RISK_REWARD == 2

\* RiskPerTrade without the fallback "or 1000.0" for an unset column
RiskPerTradeNoFallback(user_settings) ==
    IF user_settings # <<>>
    THEN F(user_settings[1].risk_per_trade)
    ELSE F(DEFAULT_RISK_PER_TRADE)

\* user_settings is the UserSettings table, .first() its first row; a row is
\* [risk_per_trade, advanced_filters], the latter NoKey or <<ratio>>
RiskPerTrade(user_settings) ==
    IF user_settings # <<>>
    THEN IF user_settings[1].risk_per_trade = 0
         THEN F(DEFAULT_RISK_PER_TRADE)
         ELSE F(user_settings[1].risk_per_trade)
    ELSE F(DEFAULT_RISK_PER_TRADE)

RiskReward(user_settings) ==
    IF user_settings # <<>>
    THEN IF user_settings[1].advanced_filters = NoKey
         THEN F(DEFAULT_RISK_REWARD)
         ELSE user_settings[1].advanced_filters[1]
    ELSE F(DEFAULT_RISK_REWARD)

\* lines 54-69, 109-141: everything the scenario blocks read
Inputs(candles, table, user_settings) ==
    LET level_entry   == LevelEntry(candles, table)
        latest_candle == candles[Len(candles)]
        atr == calculate_atr(candles, ATR_PERIOD)
        rsi == calculate_rsi(candles, RSI_PERIOD)
    IN  [candles        |-> candles,
         latest_candle  |-> latest_candle,
         ema9           |-> calculate_ema(candles, 9),
         ema21          |-> calculate_ema(candles, 21),
         atr            |-> atr,
         rsi            |-> rsi,
         vol_ma         |-> calculate_volume_ma(candles, VOLUME_MA_PERIOD),
         close_price    |-> F(latest_candle.close),
         current_volume |-> F(latest_candle.volume),
         pivot |-> level_entry.pivot,
         bc    |-> level_entry.bc,
         tc    |-> level_entry.tc,
         s1    |-> level_entry.s1,
         r1    |-> level_entry.r1,
         pdh   |-> level_entry.r1,
         pdl   |-> level_entry.s1,
         risk_per_trade |-> RiskPerTrade(user_settings),
         risk_reward    |-> RiskReward(user_settings),
         tolerance      |-> QMul(Q(2, 10), atr),
         momentum_long  |-> QLt(F(60), rsi),
         momentum_short |-> QLt(rsi, F(40))]

\* lines 128-134: the locals before the first scenario block
Locals0 ==
    [scenario |-> "None", direction |-> "neutral",
     entry_price |-> F(0), stop_price |-> F(0), target_price |-> F(0),
     confidence |-> F(0), reason |-> "", error |-> ""]

\* compute_conf without the cap min(.., 1.0) on the volume score
compute_conf_uncapped(volume_ratio, ema_align, momentum) ==
    LET vol_score == QDiv(volume_ratio, F(2))
        ema_score == IF ema_align THEN F(1) ELSE F(0)
        mom_score == QMax(QMin(momentum, F(1)), F(0))
    IN  Round2(QAdd(QAdd(QMul(Q(4, 10), vol_score), QMul(Q(3, 10), ema_score)),
                    QMul(Q(3, 10), mom_score)))

\* lines 144-148
compute_conf(volume_ratio, ema_align, momentum) ==
    LET vol_score == QMin(QDiv(volume_ratio, F(2)), F(1))
        ema_score == IF ema_align THEN F(1) ELSE F(0)
        mom_score == QMax(QMin(momentum, F(1)), F(0))
    IN  Round2(QAdd(QAdd(QMul(Q(4, 10), vol_score), QMul(Q(3, 10), ema_score)),
                    QMul(Q(3, 10), mom_score)))

\* the assignments of a matched branch; current_volume / vol_ma raises
\* ZeroDivisionError when vol_ma is 0, after the other locals were assigned
Matched(in, st, scenario, direction, stop_price, multiple, reason) ==
    LET entry_price == in.close_price
        risk == IF direction = "long" THEN QSub(entry_price, stop_price)
                ELSE QSub(stop_price, entry_price)
        target_price == IF direction = "long"
                        THEN QAdd(entry_price, QMul(multiple, risk))
                        ELSE QSub(entry_price, QMul(multiple, risk))
        momentum == IF direction = "long"
                    THEN QDiv(QSub(in.rsi, F(50)), F(50))
                    ELSE QDiv(QSub(F(50), in.rsi), F(50))
        assigned == [st EXCEPT !.scenario = scenario, !.direction = direction,
                               !.entry_price = entry_price,
                               !.stop_price = stop_price,
                               !.target_price = target_price]
    IN  IF QIsZero(in.vol_ma)
        THEN [assigned EXCEPT !.error = "ZeroDivisionError"]
        ELSE [assigned EXCEPT
                 !.confidence = compute_conf(QDiv(in.current_volume, in.vol_ma),
                                             TRUE, momentum),
                 !.reason = reason]

\* BreakoutLongGuard with the volume compared to the plain average
BreakoutLongGuardAnyVolume(in) ==
    /\ QLt(in.tc, in.close_price)
    /\ QLt(in.vol_ma, in.current_volume)
    /\ QLt(in.ema21, in.ema9)
    /\ in.momentum_long

\* line 152 and line 169: the breakout guards
BreakoutLongGuard(in) ==
    /\ QLt(in.tc, in.close_price)
    /\ QLt(QMul(Q(12, 10), in.vol_ma), in.current_volume)
    /\ QLt(in.ema21, in.ema9)
    /\ in.momentum_long

BreakoutShortGuard(in) ==
    /\ QLt(in.close_price, in.bc)
    /\ QLt(QMul(Q(12, 10), in.vol_ma), in.current_volume)
    /\ QLt(in.ema9, in.ema21)
    /\ in.momentum_short

\* lines 154-158 and 170-174: some bar among candles[-5:] came within
\* tolerance of the level
RetestedLow(in) ==
    \E i \in 1..Len(LastN(in.candles, RETEST_BARS)) :
        QLe(QAbs(QSub(F(LastN(in.candles, RETEST_BARS)[i].low), in.tc)), in.tolerance)

RetestedHigh(in) ==
    \E i \in 1..Len(LastN(in.candles, RETEST_BARS)) :
        QLe(QAbs(QSub(F(LastN(in.candles, RETEST_BARS)[i].high), in.bc)), in.tolerance)

\* lines 150-183, Scenario 1: Trend/Breakout
TrendBreakout(in, st) ==
    IF BreakoutLongGuard(in)
    THEN IF RetestedLow(in)
         THEN Matched(in, st, "TrendBreakout", "long", in.bc, in.risk_reward,
                      "Price closed above TC with high volume; EMAs aligned bullish; retest confirmed")
         ELSE st
    ELSE IF BreakoutShortGuard(in)
    THEN IF RetestedHigh(in)
         THEN Matched(in, st, "TrendBreakout", "short", in.tc, in.risk_reward,
                      "Price closed below BC with high volume; EMAs aligned bearish; retest confirmed")
         ELSE st
    ELSE st

Near(in, level) == QLe(QAbs(QSub(in.close_price, level)), in.tolerance)

\* candles[-2] if len(candles) >= 2 else latest_candle
PrevCandle(in) ==
    IF Len(in.candles) >= 2 THEN in.candles[Len(in.candles) - 1] ELSE in.latest_candle

\* PullbackLongGuard accepting a volume equal to the previous bar's
PullbackLongGuardVolumeNotBelow(in) ==
    /\ QLt(in.ema21, in.ema9)
    /\ in.momentum_long
    /\ Near(in, in.pivot) \/ Near(in, in.r1)
    /\ in.latest_candle.close > in.latest_candle.open
    /\ in.latest_candle.volume >= PrevCandle(in).volume

\* lines 187-192 and 202-205, without the test scenario == "None"
PullbackLongGuard(in) ==
    /\ QLt(in.ema21, in.ema9)
    /\ in.momentum_long
    /\ Near(in, in.pivot) \/ Near(in, in.r1)
    /\ in.latest_candle.close > in.latest_candle.open
    /\ in.latest_candle.volume > PrevCandle(in).volume

PullbackShortGuard(in) ==
    /\ QLt(in.ema9, in.ema21)
    /\ in.momentum_short
    /\ Near(in, in.pivot) \/ Near(in, in.s1)
    /\ in.latest_candle.close < in.latest_candle.open
    /\ in.latest_candle.volume > PrevCandle(in).volume

\* PullbackLong without the test scenario == "None"
PullbackLongOverwriting(in, st) ==
    IF PullbackLongGuard(in)
    THEN Matched(in, st, "PullbackContinuation", "long", in.bc, in.risk_reward,
                 "Uptrend with pullback to pivot/PDH; bullish candle with rising volume")
    ELSE st

\* lines 185-200, Scenario 2: Pullback/Continuation, long
PullbackLong(in, st) ==
    IF st.scenario = "None" /\ PullbackLongGuard(in)
    THEN Matched(in, st, "PullbackContinuation", "long", in.bc, in.risk_reward,
                 "Uptrend with pullback to pivot/PDH; bullish candle with rising volume")
    ELSE st

\* lines 201-213, Scenario 2: Pullback/Continuation, short
PullbackShort(in, st) ==
    IF st.scenario = "None" /\ PullbackShortGuard(in)
    THEN Matched(in, st, "PullbackContinuation", "short", in.tc, in.risk_reward,
                 "Downtrend with pullback to pivot/PDL; bearish candle with rising volume")
    ELSE st

\* lines 218-223
BarRange(in) ==
    QMax(F(in.latest_candle.high - in.latest_candle.low), Q(1, 1000000))

wick_long(in) ==
    QDiv(F(in.latest_candle.high - in.latest_candle.close), BarRange(in))

wick_short(in) ==
    QDiv(F(in.latest_candle.close - in.latest_candle.low), BarRange(in))

high_at_res(in) == Near(in, in.r1) \/ Near(in, in.pdh)

low_at_sup(in) == Near(in, in.s1) \/ Near(in, in.pdl)

volume_decline(in) == QLt(in.current_volume, in.vol_ma)

high_atr(in) ==
    LET last   == LastN(in.candles, RANGE_BARS)
        ranges == [i \in 1..Len(last) |-> IAbs(last[i].high - last[i].low)]
    IN  QLt(QMul(Q(8, 10), Q(SumInt(ranges), RANGE_BARS)), in.atr)

\* ReversalLongGuard testing the upper wick, wick_long, instead of wick_short
ReversalLongGuardUpperWick(in) ==
    /\ low_at_sup(in)
    /\ QLt(Q(6, 10), wick_long(in))
    /\ volume_decline(in)
    /\ high_atr(in)
    /\ in.momentum_long

\* line 224 and line 233
ReversalLongGuard(in) ==
    /\ low_at_sup(in)
    /\ QLt(Q(6, 10), wick_short(in))
    /\ volume_decline(in)
    /\ high_atr(in)
    /\ in.momentum_long

ReversalShortGuard(in) ==
    /\ high_at_res(in)
    /\ QLt(Q(6, 10), wick_long(in))
    /\ volume_decline(in)
    /\ high_atr(in)
    /\ in.momentum_short

REVERSAL_MULTIPLE == Q(15, 10)

\* Reversal with the configured risk_reward as the target multiple
ReversalConfiguredMultiple(in, st) ==
    IF st.scenario = "None" /\ QLt(F(0), in.atr)
    THEN IF ReversalLongGuard(in)
         THEN Matched(in, st, "Reversal", "long", F(in.latest_candle.low),
                      in.risk_reward,
                      "Exhaustion at support; long wick; declining volume; high ATR")
         ELSE IF ReversalShortGuard(in)
         THEN Matched(in, st, "Reversal", "short", F(in.latest_candle.high),
                      in.risk_reward,
                      "Exhaustion at resistance; long wick; declining volume; high ATR")
         ELSE st
    ELSE st

\* lines 215-241, Scenario 3: Reversal/Range bound
Reversal(in, st) ==
    IF st.scenario = "None" /\ QLt(F(0), in.atr)
    THEN IF ReversalLongGuard(in)
         THEN Matched(in, st, "Reversal", "long", F(in.latest_candle.low),
                      REVERSAL_MULTIPLE,
                      "Exhaustion at support; long wick; declining volume; high ATR")
         ELSE IF ReversalShortGuard(in)
         THEN Matched(in, st, "Reversal", "short", F(in.latest_candle.high),
                      REVERSAL_MULTIPLE,
                      "Exhaustion at resistance; long wick; declining volume; high ATR")
         ELSE st
    ELSE st

\* lines 260-264
PositionSize(in, st) ==
    LET risk == QAbs(QSub(st.entry_price, st.stop_price))
    IN  IF QLt(F(0), risk) THEN QInt(QDiv(in.risk_per_trade, risk)) ELSE 0

Symbol == "NIFTY"

\* the wall clock, which generate_signal reads at lines 39, 247 and 266
VARIABLE now

utcnow == now

\* lines 40-52: the keyword arguments of SignalData(...) without candles
NoDataArgs ==
    [timestamp |-> utcnow, symbol |-> Symbol,
     scenario |-> "None", direction |-> "neutral",
     entry_price |-> F(0), stop_price |-> F(0), target_price |-> F(0),
     risk_reward |-> F(0), position_size |-> 0, confidence |-> F(0),
     reason |-> "No data available"]

\* NeutralArgs with the locals entry_price, stop_price and target_price, which
\* are still 0.0, in place of close_price
NeutralArgsFromLocals(in) ==
    [timestamp |-> utcnow, symbol |-> Symbol,
     scenario |-> "None", direction |-> "neutral",
     entry_price |-> F(0), stop_price |-> F(0), target_price |-> F(0),
     risk_reward |-> F(0), position_size |-> 0, confidence |-> F(0),
     reason |-> "No valid trading scenario detected"]

\* lines 244-258: the keyword arguments when no scenario matched
NeutralArgs(in) ==
    [timestamp |-> utcnow, symbol |-> Symbol,
     scenario |-> "None", direction |-> "neutral",
     entry_price |-> in.close_price, stop_price |-> in.close_price,
     target_price |-> in.close_price,
     risk_reward |-> F(0), position_size |-> 0, confidence |-> F(0),
     reason |-> "No valid trading scenario detected"]

\* lines 260-277: the keyword arguments of a matched scenario
ScenarioArgs(in, st) ==
    [timestamp |-> utcnow, symbol |-> Symbol,
     scenario |-> st.scenario, direction |-> st.direction,
     entry_price |-> Round2(st.entry_price),
     stop_price |-> Round2(st.stop_price),
     target_price |-> Round2(st.target_price),
     risk_reward |-> Round2(in.risk_reward),
     position_size |-> PositionSize(in, st),
     confidence |-> st.confidence,
     reason |-> st.reason]

SignalArgs(in, st) ==
    IF st.scenario = "None" THEN NeutralArgs(in) ELSE ScenarioArgs(in, st)

\* SignalData (server/app/schemas.py): the fields declared without a default;
\* pydantic raises ValidationError when one of them is not given
SignalDataRequired ==
    {"timestamp", "symbol", "scenario", "signal", "entry_price", "stop_price",
     "target_price", "risk_reward", "position_size", "confidence"}

SignalData(args) ==
    IF SignalDataRequired \subseteq DOMAIN args THEN "returned" ELSE "ValidationError"

\* ------------------------------------------------------------------------
\* The candle windows get_candles supplies and the rows the stores hold
\* ------------------------------------------------------------------------

BasePrice == 20

BaseVolume == 10

MaxPrefix == 19

\* a quiet bar at the base price
FlatCandle(day) ==
    [time |-> day, open |-> BasePrice, high |-> BasePrice, low |-> BasePrice,
     close |-> BasePrice, volume |-> BaseVolume]

Prefix(n, day) == [i \in 1..n |-> FlatCandle(day)]

\* today's bar from open to close: "body" without wicks, "pin" with a long
\* wick beyond the close
Bar(open, close, shape, volume) ==
    LET up == IMax(open, close)
        dn == IMin(open, close)
    IN  [time |-> Today, open |-> open, close |-> close, volume |-> volume,
         high |-> IF shape = "pin" /\ close >= open THEN up + 14 ELSE up,
         low  |-> IF shape = "pin" /\ close < open THEN dn - 14 ELSE dn]

\* a falling volume, one just above the average and one above twice the average
Volumes == {BaseVolume \div 2, (6 * BaseVolume) \div 5, 3 * BaseVolume}

LastBars(open) ==
    {Bar(open, c, shape, v) :
        c \in {BasePrice - 7, BasePrice, BasePrice + 7},
        shape \in {"body", "pin"}, v \in Volumes}

FirstBars ==
    {Bar(BasePrice, c, "body", BaseVolume) : c \in {BasePrice - 10, BasePrice - 7}}

Tails ==
    {<<>>} \cup {<<b>> : b \in LastBars(BasePrice)}
           \cup UNION {{<<a, b>> : b \in LastBars(a.close)} : a \in FirstBars}

PrefixLens == {0, RSI_PERIOD - 1, RSI_PERIOD, MaxPrefix}

Windows ==
    {Prefix(n, day) \o tail :
        n \in PrefixLens, day \in {PrevDay, Today}, tail \in Tails}

\* the reference bars (high, low, close) of rows persisted earlier in the day;
\* the last one closes at its low, which puts tc at the base price and bc
\* above today's closes
RefBars ==
    {<<BasePrice + 7, BasePrice - 7, BasePrice>>,
     <<BasePrice + 7, BasePrice + 7, BasePrice + 7>>,
     <<BasePrice - 7, BasePrice - 7, BasePrice - 7>>,
     <<BasePrice + 7, BasePrice - 7, BasePrice - 7>>,
     <<BasePrice + 25, BasePrice - 5, BasePrice - 5>>}

PersistedLevels ==
    {compute_cpr_levels(F(b[1]), F(b[2]), F(b[3]), NoWidth) : b \in RefBars}

SettingsRows ==
    {[risk_per_trade |-> 0, advanced_filters |-> NoKey],
     [risk_per_trade |-> 500, advanced_filters |-> <<Q(5, 2)>>]}

\* ------------------------------------------------------------------------
\* State
\* ------------------------------------------------------------------------

VARIABLES
    pc,             \* where signal_feed is: "idle", "fetched", "done"
    candles,        \* the window get_candles returned
    levels_daily,   \* the LevelsDaily rows of (Symbol, today), in insertion order
    user_settings,  \* the UserSettings rows
    inputs,         \* <<>> or <<the values generate_signal computed at lines 54-141>>
    blocks,         \* the locals after each of the four scenario blocks
    args,           \* <<>> or <<the keyword arguments given to SignalData>>
    outcome         \* "none", "returned", "ValidationError", "ZeroDivisionError"

\* the state of the other engines and of the callers that exercise them
VARIABLES
    calls,          \* the results of the successive generate_signal calls of one feed
    bar,            \* <<>> or <<the reference bar (high, low, close)>>
    prev_cpr_width, \* the prev_cpr_width argument: NoWidth or a width
    cpr,            \* <<>> or <<what compute_cpr_levels returned or raised>>
    pivots,         \* <<>> or <<what compute_pivot_levels returned>>
    values,         \* <<>> or <<what compute_indicators returned or raised>>
    series,         \* <<>> or <<what compute_indicator_series returned>>
    volume_ma,      \* <<>> or <<what calculate_volume_ma returned>>
    quote,          \* <<>> or <<the arguments S, K, T, r, q, sigma, option_type>>
    metrics,        \* <<>> or <<what greeks returned>>
    market_price,   \* <<>> or <<the market_price argument of implied_volatility>>
    iv              \* <<>> or <<the locals of implied_volatility>>

\* the option engine: ticker selection, parsing and option metrics
VARIABLES
    request,        \* <<>> or <<the arguments of the call under way>>
    ticker,         \* <<>> or <<the ticker, a sequence of characters>>
    parsed,         \* <<>> or <<what parse_option_symbol returned or raised>>
    option_metrics  \* <<>> or <<what compute_option_metrics returned or raised>>

\* the levels endpoint, the WebSocket manager and the backtest
VARIABLES
    handlers,       \* <<>> or the requests under way, each with its position
    channels,       \* WebSocketManager.channels: channel name -> set of sockets
    broadcasts,     \* <<>> or the broadcast calls under way
    backtest        \* <<>> or <<the locals of run_backtest>>

signalVars == <<pc, candles, levels_daily, user_settings, inputs, blocks, args, outcome>>

levelVars == <<bar, prev_cpr_width, cpr, pivots>>

indicatorVars == <<values, series, volume_ma>>

pricingVars == <<quote, metrics, market_price, iv>>

optionVars == <<request, ticker, parsed, option_metrics>>

storeVars == <<handlers>>

wsVars == <<channels, broadcasts>>

backtestVars == <<backtest>>

restVars == <<optionVars, storeVars, wsVars, backtestVars>>

vars == <<signalVars, now, calls, levelVars, indicatorVars, pricingVars, restVars>>

\* nothing has been passed to the level, indicator and pricing engines
LevelsIdle == bar = <<>> /\ prev_cpr_width = <<>> /\ cpr = <<>> /\ pivots = <<>>

IndicatorsIdle == values = <<>> /\ series = <<>> /\ volume_ma = <<>>

PricingIdle == quote = <<>> /\ metrics = <<>> /\ market_price = <<>> /\ iv = <<>>

OptionsIdle ==
    request = <<>> /\ ticker = <<>> /\ parsed = <<>> /\ option_metrics = <<>>

StoreIdle == handlers = <<>>

WsIdle == channels = <<>> /\ broadcasts = <<>>

BacktestIdle == backtest = <<>>

RestIdle == OptionsIdle /\ StoreIdle /\ WsIdle /\ BacktestIdle

Init ==
    /\ pc = "idle"
    /\ candles = <<>>
    /\ levels_daily \in {<<>>} \cup {<<row>> : row \in PersistedLevels}
    /\ user_settings \in {<<>>} \cup {<<row>> : row \in SettingsRows}
    /\ inputs = <<>>
    /\ blocks = <<>>
    /\ args = <<>>
    /\ outcome = "none"
    /\ now = 0
    /\ calls = <<>>
    /\ LevelsIdle /\ IndicatorsIdle /\ PricingIdle
    /\ RestIdle

\* line 36: await get_candles(symbol, timeframe="5m")
GetCandles ==
    /\ pc = "idle"
    /\ \E w \in Windows : candles' = w
    /\ pc' = "fetched"
    /\ UNCHANGED <<levels_daily, user_settings, inputs, blocks, args, outcome>>
    /\ UNCHANGED <<now, calls, levelVars, indicatorVars, pricingVars>>
    /\ UNCHANGED restVars

\* lines 37-52: no data
NoData ==
    /\ pc = "fetched"
    /\ candles = <<>>
    /\ inputs' = <<>>
    /\ blocks' = <<>>
    /\ args' = <<NoDataArgs>>
    /\ outcome' = SignalData(NoDataArgs)
    /\ pc' = "done"
    /\ UNCHANGED <<candles, levels_daily, user_settings>>
    /\ UNCHANGED <<now, calls, levelVars, indicatorVars, pricingVars>>
    /\ UNCHANGED restVars

\* lines 53-277: the rest of generate_signal, which has no further await
Evaluate ==
    /\ pc = "fetched"
    /\ candles # <<>>
    /\ \E in \in {Inputs(candles, levels_daily, user_settings)} :
       \E b1 \in {TrendBreakout(in, Locals0)} :
       \E b2 \in {PullbackLong(in, b1)} :
       \E b3 \in {PullbackShort(in, b2)} :
       \E b4 \in {Reversal(in, b3)} :
           /\ inputs' = <<in>>
           /\ blocks' = <<b1, b2, b3, b4>>
           /\ levels_daily' = LevelsAfter(candles, levels_daily)
           /\ IF b4.error # ""
              THEN /\ args' = <<>>
                   /\ outcome' = b4.error
              ELSE /\ args' = <<SignalArgs(in, b4)>>
                   /\ outcome' = SignalData(args'[1])
    /\ pc' = "done"
    /\ UNCHANGED <<candles, user_settings>>
    /\ UNCHANGED <<now, calls, levelVars, indicatorVars, pricingVars>>
    /\ UNCHANGED restVars

\* server/app/main.py signal_feed: an exception is swallowed, the loop sleeps
\* and calls generate_signal again
NextCall ==
    /\ pc = "done"
    /\ pc' = "idle"
    /\ candles' = <<>>
    /\ inputs' = <<>>
    /\ blocks' = <<>>
    /\ args' = <<>>
    /\ outcome' = "none"
    /\ UNCHANGED <<levels_daily, user_settings>>
    /\ UNCHANGED <<now, calls, levelVars, indicatorVars, pricingVars>>
    /\ UNCHANGED restVars

Next == GetCandles \/ NoData \/ Evaluate \/ NextCall

Spec == Init /\ [][Next]_vars

\* ------------------------------------------------------------------------
\* Properties of the Signal Engine
\* ------------------------------------------------------------------------

Scenarios == {"TrendBreakout", "PullbackContinuation", "Reversal", "None"}

\* generate_signal has run to its end on the window in candles
Done == pc = "done"

\* it reached the SignalData(...) call: args[1] holds the fields of the Signal
Built == Done /\ args # <<>>

\* it evaluated the scenario blocks (the window was not empty)
Evaluated == Done /\ inputs # <<>>

\* C1: every call of generate_signal returns a Signal whose scenario is one
\* of the four labels; it never ends in an error outcome.
C1_AlwaysReturnsSignal ==
    Done => /\ outcome = "returned"
            /\ args # <<>>
            /\ args[1].scenario \in Scenarios

\* the values the claims speak of, read off the state
In == inputs[1]

Final == blocks[4]

Sig == args[1]

LatestBar == candles[Len(candles)]

Close == F(LatestBar.close)

Volume == F(LatestBar.volume)

\* within 0.2 x ATR of a level
Within(x, level) == QLe(QAbs(QSub(x, level)), QMul(Q(1, 5), In.atr))

LastBars5 == LastN(candles, 5)

\* the guards of the three scenarios as the specification words them
TBLongHolds ==
    /\ QLt(In.tc, Close)
    /\ QLt(QMul(Q(6, 5), In.vol_ma), Volume)
    /\ QLt(In.ema21, In.ema9)
    /\ QLt(F(60), In.rsi)
    /\ \E i \in 1..Len(LastBars5) : Within(F(LastBars5[i].low), In.tc)

TBShortHolds ==
    /\ QLt(Close, In.bc)
    /\ QLt(QMul(Q(6, 5), In.vol_ma), Volume)
    /\ QLt(In.ema9, In.ema21)
    /\ QLt(In.rsi, F(40))
    /\ \E i \in 1..Len(LastBars5) : Within(F(LastBars5[i].high), In.bc)

PrevVolume == IF Len(candles) >= 2 THEN candles[Len(candles) - 1].volume
              ELSE LatestBar.volume

PCLongHolds ==
    /\ QLt(In.ema21, In.ema9)
    /\ QLt(F(60), In.rsi)
    /\ Within(Close, In.pivot) \/ Within(Close, In.r1)
    /\ LatestBar.close > LatestBar.open
    /\ LatestBar.volume > PrevVolume

PCShortHolds ==
    /\ QLt(In.ema9, In.ema21)
    /\ QLt(In.rsi, F(40))
    /\ Within(Close, In.pivot) \/ Within(Close, In.s1)
    /\ LatestBar.close < LatestBar.open
    /\ LatestBar.volume > PrevVolume

\* 0.8 x the mean of high - low over the last 14 bars, below the ATR
ElevatedATR ==
    LET last == LastN(candles, 14)
    IN  QLt(QMul(Q(4, 5), Q(SumInt([i \in 1..Len(last) |->
                                      IAbs(last[i].high - last[i].low)]), 14)),
            In.atr)

\* the Reversal guards of the specification: near S1 / R1, wick ratio above
\* 0.6 of the bar's range, volume below its average, ATR elevated
RevLongHolds ==
    /\ Within(Close, In.s1)
    /\ LatestBar.high > LatestBar.low
    /\ 10 * (LatestBar.close - LatestBar.low) > 6 * (LatestBar.high - LatestBar.low)
    /\ QLt(Volume, In.vol_ma)
    /\ ElevatedATR

RevShortHolds ==
    /\ Within(Close, In.r1)
    /\ LatestBar.high > LatestBar.low
    /\ 10 * (LatestBar.high - LatestBar.close) > 6 * (LatestBar.high - LatestBar.low)
    /\ QLt(Volume, In.vol_ma)
    /\ ElevatedATR

TBHolds == TBLongHolds \/ TBShortHolds

PCHolds == PCLongHolds \/ PCShortHolds

Decision(b) == <<b.scenario, b.direction, b.entry_price, b.stop_price, b.target_price>>

\* C2: the scenarios are evaluated first-match-wins in the order
\* TrendBreakout, PullbackContinuation, Reversal: when the guards of several
\* hold, the earliest is reported, and what an earlier block has set is not
\* overwritten by a later block.
C2_FirstMatchWins ==
    Evaluated =>
        /\ \A i \in 1..3 :
              blocks[i].scenario # "None" => Decision(blocks[i + 1]) = Decision(blocks[i])
        /\ TBHolds => Sig.scenario = "TrendBreakout"
        /\ (~TBHolds /\ PCHolds) => Sig.scenario = "PullbackContinuation"
        /\ Final.scenario = Sig.scenario /\ Final.direction = Sig.direction

\* a breakout whose candle also satisfies the pullback guards
C2_Witness ==
    /\ Evaluated
    /\ TBLongHolds /\ PCLongHolds
    /\ Sig.scenario = "TrendBreakout"
    /\ blocks[1].scenario = "TrendBreakout"

NoEarlierMatch == blocks[3].scenario = "None"

\* C4 as stated: with no earlier match and ATR > 0, Reversal long is reported
\* whenever the close is within 0.2 x ATR of S1, the lower wick exceeds 0.6
\* of the range, volume < volumeMA and ATR is elevated (short: the mirror at
\* R1 with the upper wick); no RSI condition is needed.
C4_ReversalWithoutRSI ==
    (Evaluated /\ NoEarlierMatch /\ QLt(F(0), In.atr)) =>
        /\ RevLongHolds => (Sig.scenario = "Reversal" /\ Sig.direction = "long")
        /\ RevShortHolds => (Sig.scenario = "Reversal" /\ Sig.direction = "short")

\* C4 as amended: the same, provided also RSI > 60 for long and RSI < 40 for
\* short; and without that momentum no Reversal is reported.
C4_ReversalNeedsMomentum ==
    (Evaluated /\ NoEarlierMatch /\ QLt(F(0), In.atr)) =>
        /\ (RevLongHolds /\ QLt(F(60), In.rsi)) =>
              (Sig.scenario = "Reversal" /\ Sig.direction = "long")
        /\ (RevShortHolds /\ QLt(In.rsi, F(40))) =>
              (Sig.scenario = "Reversal" /\ Sig.direction = "short")
        /\ (Sig.scenario = "Reversal" /\ Sig.direction = "long") => QLt(F(60), In.rsi)
        /\ (Sig.scenario = "Reversal" /\ Sig.direction = "short") => QLt(In.rsi, F(40))

C4_Witness ==
    /\ Evaluated /\ NoEarlierMatch
    /\ RevLongHolds /\ QLt(F(60), In.rsi)
    /\ Sig.scenario = "Reversal" /\ Sig.direction = "long"

\* the riskRewardRatio of the user's configuration, 2.0 without one
ConfiguredRiskReward ==
    IF user_settings = <<>> THEN F(2)
    ELSE IF user_settings[1].advanced_filters = <<>> THEN F(2)
    ELSE user_settings[1].advanced_filters[1]

\* the riskPerTrade of the user's configuration, 1000 without one
ConfiguredRiskPerTrade ==
    IF user_settings = <<>> THEN F(1000)
    ELSE IF user_settings[1].risk_per_trade = 0 THEN F(1000)
    ELSE F(user_settings[1].risk_per_trade)

\* target = entry + multiple x (entry - stop), mirrored for short
TargetAt(multiple) ==
    IF Final.direction = "long"
    THEN QAdd(Final.entry_price,
              QMul(multiple, QSub(Final.entry_price, Final.stop_price)))
    ELSE QSub(Final.entry_price,
              QMul(multiple, QSub(Final.stop_price, Final.entry_price)))

\* C5: a Reversal's stop is the extreme of the signal bar (low for long, high
\* for short) and its target is 1.5 x the risk away from the entry whatever
\* riskRewardRatio is configured; TrendBreakout and PullbackContinuation
\* targets use the configured riskRewardRatio.
C5_ReversalFixedMultiple ==
    (Evaluated /\ Sig.scenario # "None") =>
        /\ Sig.entry_price = Round2(Final.entry_price)
        /\ Sig.stop_price = Round2(Final.stop_price)
        /\ Sig.target_price = Round2(Final.target_price)
        /\ Final.entry_price = Close
        /\ Sig.scenario = "Reversal" =>
              /\ Final.stop_price = IF Sig.direction = "long" THEN F(LatestBar.low)
                                    ELSE F(LatestBar.high)
              /\ Final.target_price = TargetAt(Q(3, 2))
        /\ Sig.scenario \in {"TrendBreakout", "PullbackContinuation"} =>
              Final.target_price = TargetAt(ConfiguredRiskReward)

\* a Reversal under a configured riskRewardRatio other than 1.5
C5_Witness ==
    /\ Evaluated
    /\ Sig.scenario = "Reversal"
    /\ ConfiguredRiskReward # Q(3, 2)
    /\ user_settings # <<>>
    /\ Final.entry_price # Final.stop_price

\* C6 as stated: a Signal of scenario None has direction neutral, entry =
\* stop = target = the latest close of the window, confidence 0 and
\* position_size 0.
C6_NoneIsLatestClose ==
    (Built /\ Sig.scenario = "None") =>
        /\ Sig.direction = "neutral"
        /\ candles # <<>>
        /\ Sig.entry_price = Close
        /\ Sig.stop_price = Close
        /\ Sig.target_price = Close
        /\ Sig.confidence = F(0)
        /\ Sig.position_size = 0

\* C6 as amended: the three prices are the latest close when the window has
\* candles and 0.0 when it is empty.
C6_NoneIsNeutral ==
    (Built /\ Sig.scenario = "None") =>
        LET price == IF candles = <<>> THEN F(0) ELSE Close
        IN  /\ Sig.direction = "neutral"
            /\ Sig.entry_price = price
            /\ Sig.stop_price = price
            /\ Sig.target_price = price
            /\ Sig.confidence = F(0)
            /\ Sig.position_size = 0

\* no scenario matched on a window with full indicator history
C6_Witness ==
    /\ Evaluated
    /\ Len(candles) > 14
    /\ Sig.scenario = "None"
    /\ Sig.entry_price = Close /\ Close # F(0)

\* C7: on a window of fewer than 15 candles the scenario is None, whatever
\* the levels and the risk configuration.
C7_ShortWindowIsNone ==
    (Done /\ Len(candles) < 15) => (args # <<>> /\ Sig.scenario = "None")

\* 14 candles closing above tc on more than 1.2 x the average volume
C7_Witness ==
    /\ Evaluated
    /\ Len(candles) = 14
    /\ QLt(In.tc, Close)
    /\ QLt(QMul(Q(6, 5), In.vol_ma), Volume)
    /\ QLt(In.ema21, In.ema9)
    /\ In.atr = F(0) /\ In.rsi = F(50)
    /\ Sig.scenario = "None"

Clamp01(x) == IF QLt(x, F(0)) THEN F(0) ELSE IF QLt(F(1), x) THEN F(1) ELSE x

\* the confidence of the specification, with the EMA term given only when
\* the EMAs are aligned with the direction
SpecConfidence ==
    LET ratio   == QDiv(QDiv(Volume, In.vol_ma), F(2))
        vol     == IF QLt(F(1), ratio) THEN F(1) ELSE ratio
        aligned == IF Sig.direction = "long" THEN QLt(In.ema21, In.ema9)
                   ELSE QLt(In.ema9, In.ema21)
        mom     == IF Sig.direction = "long"
                   THEN Clamp01(QDiv(QSub(In.rsi, F(50)), F(50)))
                   ELSE Clamp01(QDiv(QSub(F(50), In.rsi), F(50)))
    IN  Round2(QAdd(QAdd(QMul(Q(2, 5), vol),
                         IF aligned THEN Q(3, 10) ELSE F(0)),
                    QMul(Q(3, 10), mom)))

\* C8: in all three scenarios the confidence is round(0.4 x min(volume /
\* volumeMA / 2, 1) + 0.3 x (1 if the EMAs are aligned with the direction
\* else 0) + 0.3 x clamp((RSI - 50) / 50, 0, 1), 2), with (50 - RSI) / 50
\* for shorts.
C8_ConfidenceFormula ==
    (Evaluated /\ Sig.scenario # "None") => Sig.confidence = SpecConfidence

C10_PositionSize ==
    (Evaluated /\ Sig.scenario # "None") =>
        LET risk == QAbs(QSub(Final.entry_price, Final.stop_price))
            n    == Sig.position_size
        IN  /\ QIsZero(risk) => n = 0
            /\ ~QIsZero(risk) =>
                  /\ n \in Nat
                  /\ QLe(QMul(F(n), risk), ConfiguredRiskPerTrade)
                  /\ QLt(ConfiguredRiskPerTrade, QMul(F(n + 1), risk))
            /\ user_settings = <<>> =>
                  /\ In.risk_per_trade = F(1000)
                  /\ In.risk_reward = F(2)
                  /\ Sig.risk_reward = F(2)

\* a signal sized from the column default of a settings row: 1000
C10_Witness ==
    /\ Evaluated
    /\ Sig.scenario # "None"
    /\ user_settings # <<>>
    /\ user_settings[1].risk_per_trade = 0
    /\ Sig.position_size > 0
    /\ ~(\E k \in 1..1000 : QMul(F(k), QAbs(QSub(Final.entry_price, Final.stop_price))) = F(1000))

\* ------------------------------------------------------------------------
\* Two evaluations of one window (server/app/main.py signal_feed)
\* ------------------------------------------------------------------------

MaxSleep == 2

\* the windows, rows and settings the repeated evaluation is run on
RepeatWindows ==
    {Prefix(n, day) \o tail :
        n \in {0, MaxPrefix}, day \in {PrevDay, Today}, tail \in Tails}

InitRepeat ==
    /\ pc = "idle"
    /\ candles \in RepeatWindows
    /\ levels_daily \in {<<>>} \cup {<<row>> : row \in PersistedLevels}
    /\ user_settings \in {<<>>} \cup {<<row>> : row \in SettingsRows}
    /\ inputs = <<>>
    /\ blocks = <<>>
    /\ args = <<>>
    /\ outcome = "none"
    /\ now = 0
    /\ calls = <<>>
    /\ LevelsIdle /\ IndicatorsIdle /\ PricingIdle
    /\ RestIdle

\* generate_signal on the window at hand; the feed evaluates it a second time
\* after its sleep. calls records <<>> for an exception before SignalData(...)
\* and <<the keyword arguments>> otherwise
Call ==
    /\ pc = "idle"
    /\ Len(calls) < 2
    /\ IF candles = <<>>
       THEN /\ calls' = Append(calls, <<NoDataArgs>>)
            /\ UNCHANGED levels_daily
       ELSE \E in \in {Inputs(candles, levels_daily, user_settings)} :
            \E b1 \in {TrendBreakout(in, Locals0)} :
            \E b2 \in {PullbackLong(in, b1)} :
            \E b3 \in {PullbackShort(in, b2)} :
            \E b4 \in {Reversal(in, b3)} :
                /\ calls' = Append(calls, IF b4.error # "" THEN <<>>
                                          ELSE <<SignalArgs(in, b4)>>)
                /\ levels_daily' = LevelsAfter(candles, levels_daily)
    /\ pc' = "done"
    /\ UNCHANGED <<candles, user_settings, inputs, blocks, args, outcome, now>>
    /\ UNCHANGED <<levelVars, indicatorVars, pricingVars>>
    /\ UNCHANGED restVars

\* await asyncio.sleep(settings.websocket_refresh_rate): the clock moves on
Sleep ==
    /\ pc = "done"
    /\ Len(calls) < 2
    /\ \E d \in 1..MaxSleep : now' = now + d
    /\ pc' = "idle"
    /\ UNCHANGED <<candles, levels_daily, user_settings, inputs, blocks, args,
                   outcome, calls>>
    /\ UNCHANGED <<levelVars, indicatorVars, pricingVars>>
    /\ UNCHANGED restVars

NextRepeat == Call \/ Sleep

SpecRepeat == InitRepeat /\ [][NextRepeat]_vars

\* ------------------------------------------------------------------------
\* C11
\* ------------------------------------------------------------------------

EvaluatedTwice == Len(calls) = 2 /\ calls[1] # <<>> /\ calls[2] # <<>>

WithoutTimestamp(a) == [f \in DOMAIN a \ {"timestamp"} |-> a[f]]

\* C11 as stated: two evaluations of generate_signal on the same candle
\* window, the same levels and the same risk configuration give Signals that
\* are identical in every field.
C11_IdenticalSignals ==
    Len(calls) = 2 => calls[1] = calls[2]

\* C11 amended: the two Signals are identical in every field except timestamp,
\* which is the reading of the clock at each evaluation (the first evaluation
\* may have computed and stored the levels the second one reads back).
C11_IdenticalButTimestamp ==
    Len(calls) = 2 =>
        /\ (calls[1] = <<>>) <=> (calls[2] = <<>>)
        /\ EvaluatedTwice =>
               WithoutTimestamp(calls[1][1]) = WithoutTimestamp(calls[2][1])

\* a scenario is reported twice, on levels computed from yesterday's candles,
\* at two different instants
C11_Witness ==
    /\ EvaluatedTwice
    /\ calls[1][1].scenario # "None"
    /\ calls[1][1].timestamp # calls[2][1].timestamp
    /\ PrevCandles(candles) # <<>>
    /\ levels_daily = <<ComputedLevels(candles)>>

\* ------------------------------------------------------------------------
\* Level Engine: the two implementations on one reference bar
\* (server/app/utils/cpr.py, server/app/utils/levels.py)
\* ------------------------------------------------------------------------

\* compute_pivot_levels: (P, BC, TC, S1, S2, S3, R1, R2, R3) of a candle
compute_pivot_levels(candle) ==
    LET high  == F(candle.high)
        low   == F(candle.low)
        close == F(candle.close)
        pivot == QDiv(QAdd(QAdd(high, low), close), F(3))
        bc    == QDiv(QAdd(high, low), F(2))
        tc    == QDiv(QAdd(bc, pivot), F(2))
        s1    == QSub(QMul(F(2), pivot), high)
        r1    == QSub(QMul(F(2), pivot), low)
        s2    == QSub(pivot, QSub(high, low))
        r2    == QAdd(pivot, QSub(high, low))
        s3    == QSub(low, QMul(F(2), QSub(high, pivot)))
        r3    == QAdd(high, QMul(F(2), QSub(pivot, low)))
    IN  <<pivot, bc, tc, s1, s2, s3, r1, r2, r3>>

MaxBarPrice == 6

\* reference bars with high >= low and any close
Bars ==
    {b \in [high : 0..MaxBarPrice, low : 0..MaxBarPrice, close : 0..MaxBarPrice] :
        b.high >= b.low}

\* previous widths a caller supplies: none, zero, and widths that put tc - bc
\* on, below and above the two thresholds
PrevWidths == {NoWidth, F(0), Q(5, 9), Q(5, 21), F(1), F(-1), F(3)}

InitLevels ==
    /\ bar \in {<<b>> : b \in Bars}
    /\ prev_cpr_width \in PrevWidths
    /\ cpr = <<>>
    /\ pivots = <<>>
    /\ pc = "idle" /\ candles = <<>> /\ levels_daily = <<>> /\ user_settings = <<>>
    /\ inputs = <<>> /\ blocks = <<>> /\ args = <<>> /\ outcome = "none"
    /\ now = 0 /\ calls = <<>>
    /\ IndicatorsIdle /\ PricingIdle
    /\ RestIdle

\* compute_cpr_levels(prev_high, prev_low, prev_close, prev_cpr_width); a
\* cpr_type of "ZeroDivisionError" stands for that exception being raised
ComputeCprLevels ==
    /\ cpr = <<>>
    /\ cpr' = <<compute_cpr_levels(F(bar[1].high), F(bar[1].low), F(bar[1].close),
                                   prev_cpr_width)>>
    /\ UNCHANGED <<bar, prev_cpr_width, pivots>>
    /\ UNCHANGED <<signalVars, now, calls, indicatorVars, pricingVars>>
    /\ UNCHANGED restVars

ComputePivotLevels ==
    /\ pivots = <<>>
    /\ pivots' = <<compute_pivot_levels(bar[1])>>
    /\ UNCHANGED <<bar, prev_cpr_width, cpr>>
    /\ UNCHANGED <<signalVars, now, calls, indicatorVars, pricingVars>>
    /\ UNCHANGED restVars

NextLevels == ComputeCprLevels \/ ComputePivotLevels

SpecLevels == InitLevels /\ [][NextLevels]_vars

\* ------------------------------------------------------------------------
\* C12 - C15
\* ------------------------------------------------------------------------

CprDone == cpr # <<>>

Cpr == cpr[1]

RefBar == bar[1]

\* twice the close against high + low: the close against the middle of the bar
CloseAtOrAboveMiddle == 2 * RefBar.close >= RefBar.high + RefBar.low

\* C12 as stated: for every reference bar with high >= low and any close,
\* compute_cpr_levels gives bc <= pivot <= tc.
C12_BcPivotTc ==
    CprDone => (QLe(Cpr.bc, Cpr.pivot) /\ QLe(Cpr.pivot, Cpr.tc))

\* C12 amended: bc <= pivot <= tc when the close is at or above the middle of
\* the bar, (high + low)/2; when the close is below it the order is reversed,
\* tc < pivot < bc.
C12_OrderByClose ==
    CprDone =>
        IF CloseAtOrAboveMiddle
        THEN QLe(Cpr.bc, Cpr.pivot) /\ QLe(Cpr.pivot, Cpr.tc)
        ELSE QLt(Cpr.tc, Cpr.pivot) /\ QLt(Cpr.pivot, Cpr.bc)

\* both orders occur: a bar closing above its middle with bc < pivot < tc
C12_Witness ==
    /\ CprDone
    /\ RefBar.high > RefBar.low
    /\ 2 * RefBar.close > RefBar.high + RefBar.low
    /\ QLt(Cpr.bc, Cpr.pivot) /\ QLt(Cpr.pivot, Cpr.tc)

CloseInsideBar == RefBar.low <= RefBar.close /\ RefBar.close <= RefBar.high

\* C13 as stated: for every reference bar with high >= low,
\* s1 < s2 < s3 and r1 < r2 < r3.
C13_AscendingSupports ==
    CprDone =>
        /\ QLt(Cpr.s1, Cpr.s2) /\ QLt(Cpr.s2, Cpr.s3)
        /\ QLt(Cpr.r1, Cpr.r2) /\ QLt(Cpr.r2, Cpr.r3)

\* C13 amended: for every reference bar with low <= close <= high the supports
\* descend and the resistances ascend, s3 <= s2 <= s1 and r1 <= r2 <= r3, and
\* strictly so when high > low.
C13_SupportsDescend ==
    (CprDone /\ CloseInsideBar) =>
        /\ QLe(Cpr.s3, Cpr.s2) /\ QLe(Cpr.s2, Cpr.s1)
        /\ QLe(Cpr.r1, Cpr.r2) /\ QLe(Cpr.r2, Cpr.r3)
        /\ RefBar.high > RefBar.low =>
               /\ QLt(Cpr.s3, Cpr.s2) /\ QLt(Cpr.s2, Cpr.s1)
               /\ QLt(Cpr.r1, Cpr.r2) /\ QLt(Cpr.r2, Cpr.r3)

\* a bar with a range that closes at its low
C13_Witness ==
    /\ CprDone
    /\ RefBar.high > RefBar.low
    /\ RefBar.close = RefBar.low
    /\ QLt(Cpr.s3, Cpr.s2) /\ QLt(Cpr.s2, Cpr.s1)
    /\ QLt(Cpr.r1, Cpr.r2) /\ QLt(Cpr.r2, Cpr.r3)

\* the nine levels of the Level Engine contract for the bar (H, L, C)
ContractLevels(b) ==
    LET H == F(b.high)
        L == F(b.low)
        C == F(b.close)
        pivot == QDiv(QAdd(QAdd(H, L), C), F(3))
        bc == QDiv(QAdd(H, L), F(2))
        s2 == QSub(pivot, QSub(H, L))
        r2 == QAdd(pivot, QSub(H, L))
    IN  [pivot |-> pivot, bc |-> bc,
         tc |-> QSub(QMul(F(2), pivot), bc),
         s1 |-> QSub(QMul(F(2), pivot), H), r1 |-> QSub(QMul(F(2), pivot), L),
         s2 |-> s2, r2 |-> r2,
         s3 |-> QSub(s2, QSub(H, L)), r3 |-> QAdd(r2, QSub(H, L))]

LevelNames == {"pivot", "bc", "tc", "s1", "s2", "s3", "r1", "r2", "r3"}

\* the tuple compute_pivot_levels returns, by name
PivotsByName ==
    LET p == pivots[1]
    IN  [pivot |-> p[1], bc |-> p[2], tc |-> p[3], s1 |-> p[4], s2 |-> p[5],
         s3 |-> p[6], r1 |-> p[7], r2 |-> p[8], r3 |-> p[9]]

\* C14: compute_cpr_levels and compute_pivot_levels both return, for every
\* bar (H, L, C), the nine levels of the Level Engine contract.
C14_BothMatchContract ==
    /\ CprDone => \A n \in LevelNames : Cpr[n] = ContractLevels(RefBar)[n]
    /\ pivots # <<>> => \A n \in LevelNames : PivotsByName[n] = ContractLevels(RefBar)[n]

\* the label the specification gives the width tc - bc against w
SpecCprType(width, w) ==
    IF w = NoWidth THEN "normal"
    ELSE IF QLe(width, QMul(NARROW_THRESHOLD, w)) THEN "narrow"
    ELSE IF QLe(QMul(WIDE_THRESHOLD, w), width) THEN "wide"
    ELSE "normal"

\* C15: compute_cpr_levels returns narrow when tc - bc <= 0.6 x w, wide when
\* tc - bc >= 1.4 x w and normal otherwise, normal without a reference width,
\* and one of the three labels for every bar and every supplied w.
C15_Classification ==
    CprDone =>
        /\ Cpr.cpr_type \in {"narrow", "normal", "wide"}
        /\ Cpr.cpr_type = SpecCprType(QSub(Cpr.tc, Cpr.bc), prev_cpr_width)

\* ------------------------------------------------------------------------
\* Indicator Engine: the latest values and the series
\* (server/app/utils/indicators.py)
\* ------------------------------------------------------------------------

\* the windows handed to the engine: quiet bars followed by up to two moving
\* bars, and the same windows without any traded volume
Untraded(window) == [i \in 1..Len(window) |-> [window[i] EXCEPT !.volume = 0]]

IndicatorWindows ==
    LET traded == {Prefix(n, Today) \o tail : n \in 0..MaxPrefix, tail \in Tails}
    IN  traded \cup {Untraded(w) : w \in {Prefix(n, Today) : n \in 0..MaxPrefix}}

InitIndicators ==
    /\ candles \in IndicatorWindows
    /\ values = <<>>
    /\ series = <<>>
    /\ volume_ma = <<>>
    /\ pc = "idle" /\ levels_daily = <<>> /\ user_settings = <<>>
    /\ inputs = <<>> /\ blocks = <<>> /\ args = <<>> /\ outcome = "none"
    /\ now = 0 /\ calls = <<>>
    /\ LevelsIdle /\ PricingIdle
    /\ RestIdle

ComputeIndicators ==
    /\ values = <<>>
    /\ values' = <<compute_indicators(candles)>>
    /\ UNCHANGED <<series, volume_ma>>
    /\ UNCHANGED <<signalVars, now, calls, levelVars, pricingVars>>
    /\ UNCHANGED restVars

ComputeIndicatorSeries ==
    /\ series = <<>>
    /\ series' = <<compute_indicator_series(candles)>>
    /\ UNCHANGED <<values, volume_ma>>
    /\ UNCHANGED <<signalVars, now, calls, levelVars, pricingVars>>
    /\ UNCHANGED restVars

CalculateVolumeMa ==
    /\ volume_ma = <<>>
    /\ volume_ma' = <<calculate_volume_ma(candles, VOLUME_MA_PERIOD)>>
    /\ UNCHANGED <<values, series>>
    /\ UNCHANGED <<signalVars, now, calls, levelVars, pricingVars>>
    /\ UNCHANGED restVars

NextIndicators == ComputeIndicators \/ ComputeIndicatorSeries \/ CalculateVolumeMa

SpecIndicators == InitIndicators /\ [][NextIndicators]_vars

\* ------------------------------------------------------------------------
\* C16 - C18
\* ------------------------------------------------------------------------

ValuesDone == values # <<>>

SeriesDone == series # <<>>

Values == values[1]

Series == series[1]

AllVolumesZero == \A i \in 1..Len(candles) : candles[i].volume = 0

\* C16: compute_indicators, compute_indicator_series and compute_cpr_levels
\* return a value, never an exception, for an empty candle list, for windows
\* without volume, for bars with high = low, for zero ATR and for a previous
\* CPR width of 0, with the fallback constants 50 for RSI and Stochastic, 0 for
\* VWAP and normal for the CPR classification.
C16_NothingRaises ==
    /\ ValuesDone =>
           /\ Values.raised = ""
           /\ AllVolumesZero => Values.vwap = F(0)
           /\ Len(candles) < RSI_PERIOD + 1 => Values.rsi = F(50)
           /\ Len(candles) < STOCH_PERIOD =>
                  (Values.stoch_k = F(50) /\ Values.stoch_d = F(50))
    /\ SeriesDone => Len(Series.vwap) = Len(candles)
    /\ CprDone =>
           /\ Cpr.cpr_type \in {"narrow", "normal", "wide"}
           /\ (prev_cpr_width # NoWidth /\ prev_cpr_width = F(0)) =>
                  Cpr.cpr_type = "normal"

\* the last entry of a series, when the window is not empty and it is present
LastPresent(s) == s # <<>> /\ s[Len(s)].value # Absent

LastValue(s) == s[Len(s)].value[1]

Agrees(scalar, s) == LastPresent(s) => LastValue(s) = scalar

\* the average of the last three %K values: of the windows of STOCH_PERIOD
\* candles that end at the last, the last but one and the last but two candle
LastThreeK ==
    LET n == Len(candles)
    IN  [j \in 1..3 |-> StochK(SubSeq(candles, n - j - STOCH_PERIOD + 2, n - j + 1))]

\* C17: every value compute_indicators returns equals the last entry of the
\* corresponding series of compute_indicator_series whenever that entry is
\* present, and both compute %D as the average of the last 3 %K values.
C17_ScalarsMatchSeries ==
    (ValuesDone /\ SeriesDone /\ Values.raised = "") =>
        /\ \A i \in 1..Len(EMA_PERIODS) :
               Agrees(<<Values.ema9, Values.ema21, Values.ema50, Values.ema200>>[i],
                      Series.ema[i])
        /\ Agrees(Values.vwap, Series.vwap)
        /\ Agrees(Values.atr, Series.atr)
        /\ Agrees(Values.rsi, Series.rsi)
        /\ Agrees(Values.stoch_k, Series.stoch_k)
        /\ Agrees(Values.stoch_d, Series.stoch_d)
        /\ Agrees(Values.volume_ma, Series.volume_ma)
        /\ Len(candles) >= STOCH_PERIOD + 2 =>
               Values.stoch_d =
                   QDiv(QAdd(QAdd(LastThreeK[1], LastThreeK[2]), LastThreeK[3]), F(3))

\* the mean of the last n volumes of the window
MeanVolume(n) ==
    LET last == LastN(candles, n)
    IN  Q(SumInt([i \in 1..Len(last) |-> last[i].volume]), Len(last))

Degenerate(T, sigma) == QLe(T, F(0)) \/ QLe(sigma, F(0))

\* black_scholes_price without the floor max(., 0.0) of the intrinsic value
black_scholes_price_signed(S, K, T, r, q, sigma, option_type, closed_form) ==
    IF Degenerate(T, sigma)
    THEN IF option_type = "C" THEN QSub(S, K) ELSE QSub(K, S)
    ELSE closed_form.price

black_scholes_price(S, K, T, r, q, sigma, option_type, closed_form) ==
    IF Degenerate(T, sigma)
    THEN IF option_type = "C"
         THEN QMax(QSub(S, K), F(0))
         ELSE QMax(QSub(K, S), F(0))
    ELSE closed_form.price

\* greeks: (delta, gamma, theta, vega, rho, price), by name
greeks(S, K, T, r, q, sigma, option_type, closed_form) ==
    IF Degenerate(T, sigma)
    THEN [delta |-> IF option_type = "C" /\ QLt(K, S) THEN F(1) ELSE F(-1),
          gamma |-> F(0), theta |-> F(0), vega |-> F(0), rho |-> F(0),
          price |-> black_scholes_price(S, K, T, r, q, sigma, option_type,
                                        closed_form)]
    ELSE [closed_form EXCEPT
              !.price = black_scholes_price(S, K, T, r, q, sigma, option_type,
                                            closed_form)]

\* a positive float below 50 x 2^-1074, such as the vega 5e-323 of
\* greeks(10.0, 0.0006687903331293169, 1.0, 0.0, 0.0, 0.25, "C"): it is not
\* 0, and its hundredth rounds to 0.0
Subnormal == Q(1, 1000000)

\* vega_ / 100 in float arithmetic
Hundredth(vega_) == IF vega_ = Subnormal THEN F(0) ELSE QDiv(vega_, F(100))

\* values of the closed form: prices around the strikes, vegas from 0 up
ClosedForms ==
    {[delta |-> Q(1, 2), gamma |-> Q(1, 10), theta |-> F(-1), vega |-> v,
      rho |-> F(1), price |-> p] :
        v \in {F(0), Subnormal, F(40), F(100)},
        p \in {F(0), Q(1, 2), F(1), F(2)}}

MaxSpot == 4

Quotes ==
    [S : {F(s) : s \in 1..MaxSpot}, K : {F(k) : k \in 1..MaxSpot},
     T : {Q(-1, 365), F(0), Q(30, 365)},
     r : {F(0), Q(5, 100)}, q : {F(0), Q(1, 100)},
     sigma : {Q(-1, 10), F(0), Q(1, 4)},
     option_type : {"C", "P"}]

InitPricing ==
    /\ quote \in {<<o>> : o \in Quotes}
    /\ metrics = <<>>
    /\ market_price = <<>>
    /\ iv = <<>>
    /\ pc = "idle" /\ candles = <<>> /\ levels_daily = <<>> /\ user_settings = <<>>
    /\ inputs = <<>> /\ blocks = <<>> /\ args = <<>> /\ outcome = "none"
    /\ now = 0 /\ calls = <<>>
    /\ LevelsIdle /\ IndicatorsIdle
    /\ RestIdle

\* a call greeks(S, K, T, r, q, sigma, option_type)
Greeks ==
    /\ metrics = <<>>
    /\ \E o \in {quote[1]} : \E closed_form \in ClosedForms :
           metrics' = <<greeks(o.S, o.K, o.T, o.r, o.q, o.sigma, o.option_type,
                               closed_form)>>
    /\ UNCHANGED <<quote, market_price, iv>>
    /\ UNCHANGED <<signalVars, now, calls, levelVars, indicatorVars>>
    /\ UNCHANGED restVars

NextPricing == Greeks

SpecPricing == InitPricing /\ [][NextPricing]_vars

\* ------------------------------------------------------------------------
\* C19
\* ------------------------------------------------------------------------

Quote == quote[1]

Metrics == metrics[1]

Intrinsic ==
    IF Quote.option_type = "C"
    THEN IF QLt(Quote.K, Quote.S) THEN QSub(Quote.S, Quote.K) ELSE F(0)
    ELSE IF QLt(Quote.S, Quote.K) THEN QSub(Quote.K, Quote.S) ELSE F(0)

MAX_ITERATIONS == 100

TOLERANCE == Q(1, 10000)

MIN_SIGMA == Q(1, 10000)

MAX_SIGMA == F(5)

\* lines 157-159: the Newton-Raphson step, clamped to [1e-4, 5.0]; the
\* caller has tested Hundredth(vega_) against 0
NewtonStep(sigma, diff, vega_) ==
    QMax(QMin(QSub(sigma, QDiv(diff, Hundredth(vega_))), MAX_SIGMA), MIN_SIGMA)

\* the arguments: quote.sigma is initial_guess
IVQuotes ==
    [S : {F(MaxSpot)}, K : {F(1), F(MaxSpot)},
     T : {F(0), Q(30, 365)},
     r : {F(0)}, q : {F(0)},
     sigma : {F(0), Q(1, 4), F(10)},
     option_type : {"C", "P"}]

MarketPrices == {F(0), Q(1, 2), F(MaxSpot - 1)}

InitIV ==
    /\ quote \in {<<o>> : o \in IVQuotes}
    /\ market_price \in {<<m>> : m \in MarketPrices}
    /\ metrics = <<>>
    /\ iv = <<>>
    /\ pc = "idle" /\ candles = <<>> /\ levels_daily = <<>> /\ user_settings = <<>>
    /\ inputs = <<>> /\ blocks = <<>> /\ args = <<>> /\ outcome = "none"
    /\ now = 0 /\ calls = <<>>
    /\ LevelsIdle /\ IndicatorsIdle
    /\ RestIdle

\* line 147: sigma = max(initial_guess, 1e-4)
EnterImpliedVolatility ==
    /\ iv = <<>>
    /\ iv' = <<[sigma |-> QMax(quote[1].sigma, MIN_SIGMA), iterations |-> 0,
                status |-> "running", stopped |-> "", result |-> <<>>]>>
    /\ UNCHANGED <<quote, metrics, market_price>>
    /\ UNCHANGED <<signalVars, now, calls, levelVars, indicatorVars>>
    /\ UNCHANGED restVars

\* lines 148-159: one pass of the loop body
Iterate ==
    /\ iv # <<>>
    /\ iv[1].status = "running"
    /\ iv[1].iterations < MAX_ITERATIONS
    /\ \E o \in {quote[1]} : \E closed_form \in ClosedForms :
       \E g \in {greeks(o.S, o.K, o.T, o.r, o.q, iv[1].sigma, o.option_type,
                        closed_form)} :
       \E diff \in {QSub(g.price, market_price[1])} :
           iv' = <<IF QLt(QAbs(diff), TOLERANCE)
                   THEN [iv[1] EXCEPT !.iterations = @ + 1,
                                      !.status = "returned",
                                      !.stopped = "converged",
                                      !.result = <<QMax(iv[1].sigma, MIN_SIGMA)>>]
                   ELSE IF QIsZero(g.vega)
                   THEN [iv[1] EXCEPT !.iterations = @ + 1,
                                      !.status = "returned",
                                      !.stopped = "vega",
                                      !.result = <<QMax(iv[1].sigma, MIN_SIGMA)>>]
                   ELSE IF QIsZero(Hundredth(g.vega))
                   THEN [iv[1] EXCEPT !.iterations = @ + 1,
                                      !.status = "ZeroDivisionError"]
                   ELSE [iv[1] EXCEPT !.iterations = @ + 1,
                                      !.sigma = NewtonStep(@, diff, g.vega)]>>
    /\ UNCHANGED <<quote, metrics, market_price>>
    /\ UNCHANGED <<signalVars, now, calls, levelVars, indicatorVars>>
    /\ UNCHANGED restVars

\* line 160: the loop ran max_iterations times
Exhausted ==
    /\ iv # <<>>
    /\ iv[1].status = "running"
    /\ iv[1].iterations = MAX_ITERATIONS
    /\ iv' = <<[iv[1] EXCEPT !.status = "returned", !.stopped = "cap",
                             !.result = <<QMax(iv[1].sigma, MIN_SIGMA)>>]>>
    /\ UNCHANGED <<quote, metrics, market_price>>
    /\ UNCHANGED <<signalVars, now, calls, levelVars, indicatorVars>>
    /\ UNCHANGED restVars

NextIV == EnterImpliedVolatility \/ Iterate \/ Exhausted

SpecIV == InitIV /\ [][NextIV]_vars

\* ------------------------------------------------------------------------
\* C20
\* ------------------------------------------------------------------------

\* C20: implied_volatility ends after at most 100 iterations for every input,
\* at the first iteration where |price - market_price| < 1e-4 or where vega is
\* 0, or at the cap, returning the last sigma; it never ends in an error, and
\* sigma is within [1e-4, 5.0] after every update.
C20_AlwaysReturns ==
    iv # <<>> =>
        /\ iv[1].iterations <= MAX_ITERATIONS
        /\ iv[1].status \in {"running", "returned"}
        /\ iv[1].status = "returned" =>
               /\ iv[1].stopped \in {"converged", "vega", "cap"}
               /\ iv[1].stopped = "cap" => iv[1].iterations = MAX_ITERATIONS
               /\ iv[1].result = <<QMax(iv[1].sigma, MIN_SIGMA)>>
        /\ (iv[1].status = "running" /\ iv[1].iterations > 0) =>
               (QLe(MIN_SIGMA, iv[1].sigma) /\ QLe(iv[1].sigma, MAX_SIGMA))

\* ------------------------------------------------------------------------
\* Option Engine: tickers (server/app/utils/option_selector.py,
\* server/app/utils/greeks.py parse_option_symbol)
\* A str is the sequence of its characters and a datetime.date the record
\* of its year, month and day.
\* ------------------------------------------------------------------------

DigitChars == <<"0", "1", "2", "3", "4", "5", "6", "7", "8", "9">>

IsDigit(c) == \E d \in 1..10 : DigitChars[d] = c

DigitValue(c) == (CHOOSE d \in 1..10 : DigitChars[d] = c) - 1

RECURSIVE NatToStr(_)
NatToStr(n) ==
    IF n < 10 THEN <<DigitChars[n + 1]>>
    ELSE NatToStr(n \div 10) \o <<DigitChars[(n % 10) + 1]>>

\* f"{n:d}"
IntToStr(n) == IF n < 0 THEN <<"-">> \o NatToStr(-n) ELSE NatToStr(n)

\* the zero-padded two-digit fields %y, %m and %d of strftime
TwoDigits(n) == <<DigitChars[(n \div 10) + 1], DigitChars[(n % 10) + 1]>>

RECURSIVE DigitsToNat(_)
DigitsToNat(s) ==
    IF s = <<>> THEN 0
    ELSE 10 * DigitsToNat(SubSeq(s, 1, Len(s) - 1)) + DigitValue(s[Len(s)])

AllDigits(s) == s # <<>> /\ \A i \in 1..Len(s) : IsDigit(s[i])

Signed(s) == s # <<>> /\ s[1] \in {"+", "-"}

\* the literals int() and float() both accept among the strings here: an
\* optional sign and decimal digits
IsIntLiteral(s) == AllDigits(IF Signed(s) THEN Tail(s) ELSE s)

IntLiteral(s) ==
    IF Signed(s)
    THEN (IF s[1] = "-" THEN -1 ELSE 1) * DigitsToNat(Tail(s))
    ELSE DigitsToNat(s)

\* s[a:b], with positions from 0 and the end clipped to the string
Slice(s, a, b) == SubSeq(s, IMin(a, Len(s)) + 1, IMin(b, Len(s)))

LowerCase == <<"n", "i", "f", "t", "y", "b", "a", "k", "c", "p", "x">>

UpperCase == <<"N", "I", "F", "T", "Y", "B", "A", "K", "C", "P", "X">>

UpperChar(c) ==
    IF \E i \in 1..Len(LowerCase) : LowerCase[i] = c
    THEN UpperCase[CHOOSE i \in 1..Len(LowerCase) : LowerCase[i] = c]
    ELSE c

\* str.upper()
Upper(s) == [i \in 1..Len(s) |-> UpperChar(s[i])]

IsLeap(y) == (y % 4 = 0 /\ y % 100 # 0) \/ y % 400 = 0

DaysInMonth(y, m) ==
    IF m = 2 THEN (IF IsLeap(y) THEN 29 ELSE 28)
    ELSE IF m \in {4, 6, 9, 11} THEN 30 ELSE 31

\* datetime.date(year, month, day) raises ValueError unless this holds
ValidDate(y, m, d) == y \in 1..9999 /\ m \in 1..12 /\ d \in 1..DaysInMonth(y, m)

RECURSIVE DaysBeforeMonth(_, _)
DaysBeforeMonth(y, m) ==
    IF m = 1 THEN 0 ELSE DaysBeforeMonth(y, m - 1) + DaysInMonth(y, m - 1)

\* the days from 2000-01-01 to a date of this century
Ordinal(date) ==
    365 * (date.year - 2000)
        + Cardinality({y \in 2000..(date.year - 1) : IsLeap(y)})
        + DaysBeforeMonth(date.year, date.month) + (date.day - 1)

\* date.weekday(): Monday is 0; 2000-01-01 was a Saturday
weekday(date) == (5 + Ordinal(date)) % 7

\* date + datetime.timedelta(days=n), n >= 0
RECURSIVE AddDays(_, _)
AddDays(date, n) ==
    LET left == DaysInMonth(date.year, date.month) - date.day
    IN  IF n <= left THEN [date EXCEPT !.day = date.day + n]
        ELSE AddDays(IF date.month = 12
                     THEN [year |-> date.year + 1, month |-> 1, day |-> 1]
                     ELSE [date EXCEPT !.month = date.month + 1, !.day = 1],
                     n - left - 1)

\* option_selector.py lines 20-25
_next_thursday(today) ==
    LET days_ahead == (3 - weekday(today)) % 7
    IN  IF days_ahead = 0 THEN today ELSE AddDays(today, days_ahead)

\* round(x): the nearest integer, a tie going to the even one
Round(a) ==
    LET q == a[1] \div a[2]
        r == a[1] % a[2]
    IN  IF 2 * r < a[2] THEN q
        ELSE IF 2 * r > a[2] THEN q + 1
        ELSE IF q % 2 = 0 THEN q ELSE q + 1

\* expiry_date.strftime("%y%m%d")
ExpiryCode(date) ==
    TwoDigits(date.year % 100) \o TwoDigits(date.month) \o TwoDigits(date.day)

CallDirections == {"buy", "call"}

\* lines 64-69 of select_option_symbol; days_to_expiry is <<>> for None
SelectedExpiry(today, days_to_expiry) ==
    IF days_to_expiry # <<>> /\ days_to_expiry[1] >= 0
    THEN AddDays(today, days_to_expiry[1])
    ELSE _next_thursday(today)

\* lines 73-88; manual_strike is <<>> for None
SelectedStrike(underlying_price, strike_mode, trade_direction, manual_strike) ==
    LET base_strike == Round(QDiv(underlying_price, F(100))) * 100
    IN  IF strike_mode = "itm_100"
        THEN IF trade_direction \in CallDirections
             THEN base_strike - 100 ELSE base_strike + 100
        ELSE IF strike_mode = "otm_100"
        THEN IF trade_direction \in CallDirections
             THEN base_strike + 100 ELSE base_strike - 100
        ELSE IF strike_mode = "manual" /\ manual_strike # <<>>
        THEN Round(manual_strike[1])
        ELSE base_strike

\* lines 90-95
SelectedType(trade_direction) ==
    IF trade_direction \in CallDirections THEN "C"
    ELSE IF trade_direction \in {"sell", "put"} THEN "P"
    ELSE "C"

\* select_option_symbol, called on the day today
select_option_symbol(underlying_symbol, underlying_price, strike_mode, trade_direction, days_to_expiry, manual_strike, today) ==
    Upper(underlying_symbol)
        \o ExpiryCode(SelectedExpiry(today, days_to_expiry))
        \o <<SelectedType(trade_direction)>>
        \o IntToStr(SelectedStrike(underlying_price, strike_mode,
                                   trade_direction, manual_strike))

\* parse_option_symbol: (underlying, expiry_date, strike, option_type) by
\* name, or the exception it raises
parse_option_symbol(symbol) ==
    LET date_str == Slice(symbol, 5, 11)
        strike_str == Slice(symbol, 12, Len(symbol))
        yy == Slice(date_str, 0, 2)
        mm == Slice(date_str, 2, 4)
        dd == Slice(date_str, 4, 6)
    IN  IF Len(symbol) < 12 THEN [raised |-> "IndexError"]
        ELSE IF ~IsIntLiteral(yy) \/ ~IsIntLiteral(mm) \/ ~IsIntLiteral(dd)
        THEN [raised |-> "ValueError"]
        ELSE IF ~ValidDate(2000 + IntLiteral(yy), IntLiteral(mm), IntLiteral(dd))
        THEN [raised |-> "ValueError"]
        ELSE IF ~IsIntLiteral(strike_str) THEN [raised |-> "ValueError"]
        ELSE [raised |-> "",
              underlying |-> Upper(Slice(symbol, 0, 5)),
              expiry_date |-> [year |-> 2000 + IntLiteral(yy),
                               month |-> IntLiteral(mm),
                               day |-> IntLiteral(dd)],
              strike |-> F(IntLiteral(strike_str)),
              option_type |-> UpperChar(symbol[12])]

NIFTY == <<"N", "I", "F", "T", "Y">>

BANKNIFTY == <<"B", "A", "N", "K", "N", "I", "F", "T", "Y">>

\* the days on which the calls are made: a Wednesday, a Thursday and a
\* Monday whose week's Thursday is the last day of the year
Todays ==
    {[year |-> 2026, month |-> 11, day |-> 4],
     [year |-> 2026, month |-> 11, day |-> 5],
     [year |-> 2026, month |-> 12, day |-> 28]}

\* arguments of select_option_symbol (routers/greeks.py lines 134-141)
SelectRequests ==
    [underlying_symbol : {NIFTY, BANKNIFTY, <<"n", "i", "f", "t", "y">>},
     underlying_price : {F(30), F(50), F(150), F(250), Q(48101, 2)},
     strike_mode : {"closest_atm", "itm_100", "otm_100", "manual", "ticker"},
     trade_direction : {"buy", "sell", "call", "put"},
     days_to_expiry : {<<>>, <<-1>>, <<0>>, <<30>>},
     manual_strike : {<<>>, <<F(24050)>>, <<Q(49, 2)>>},
     today : Todays]

InitTicker ==
    /\ request \in {<<a>> : a \in SelectRequests}
    /\ ticker = <<>>
    /\ parsed = <<>>
    /\ option_metrics = <<>>
    /\ pc = "idle" /\ candles = <<>> /\ levels_daily = <<>> /\ user_settings = <<>>
    /\ inputs = <<>> /\ blocks = <<>> /\ args = <<>> /\ outcome = "none"
    /\ now = 0 /\ calls = <<>>
    /\ LevelsIdle /\ IndicatorsIdle /\ PricingIdle
    /\ StoreIdle /\ WsIdle /\ BacktestIdle

\* routers/greeks.py lines 134-141
SelectOptionSymbol ==
    /\ ticker = <<>>
    /\ \E a \in {request[1]} :
           ticker' = <<select_option_symbol(a.underlying_symbol, a.underlying_price,
                                            a.strike_mode, a.trade_direction,
                                            a.days_to_expiry, a.manual_strike,
                                            a.today)>>
    /\ UNCHANGED <<request, parsed, option_metrics>>
    /\ UNCHANGED <<signalVars, now, calls, levelVars, indicatorVars, pricingVars>>
    /\ UNCHANGED <<storeVars, wsVars, backtestVars>>

\* routers/greeks.py lines 142-145
ParseOptionSymbol ==
    /\ ticker # <<>>
    /\ parsed = <<>>
    /\ parsed' = <<parse_option_symbol(ticker[1])>>
    /\ UNCHANGED <<request, ticker, option_metrics>>
    /\ UNCHANGED <<signalVars, now, calls, levelVars, indicatorVars, pricingVars>>
    /\ UNCHANGED <<storeVars, wsVars, backtestVars>>

NextTicker == SelectOptionSymbol \/ ParseOptionSymbol

SpecTicker == InitTicker /\ [][NextTicker]_vars

\* ------------------------------------------------------------------------
\* C30
\* ------------------------------------------------------------------------

Request == request[1]

Parsed == parsed[1]

\* C30: for NIFTY and BANKNIFTY, every strike mode, trade direction and
\* positive underlying price, parsing the selected ticker recovers the
\* underlying symbol, expiry date, strike and option type (C for buy/call,
\* P for sell/put) that select_option_symbol encoded.
C30_RoundTrip ==
    parsed # <<>> =>
        /\ Parsed.raised = ""
        /\ Parsed.underlying = Upper(Request.underlying_symbol)
        /\ Parsed.expiry_date = SelectedExpiry(Request.today, Request.days_to_expiry)
        /\ Parsed.strike = F(SelectedStrike(Request.underlying_price,
                                            Request.strike_mode,
                                            Request.trade_direction,
                                            Request.manual_strike))
        /\ Parsed.option_type =
               IF Request.trade_direction \in {"buy", "call"} THEN "C" ELSE "P"

\* ------------------------------------------------------------------------
\* Option Engine: compute_option_metrics (server/app/utils/greeks.py)
\* ------------------------------------------------------------------------

MIN_IV == Q(1, 10000)

ATM_TOLERANCE == Q(1, 2)

MIN_OPTION_PRICE == Q(1, 100)

\* what line 109, d1 = (math.log(S / K) + ...) / ..., raises: S / K divides by
\* a zero strike and math.log rejects a ratio that is not positive
D1Raises(S, K) ==
    IF QIsZero(K) THEN "ZeroDivisionError"
    ELSE IF QLe(QDiv(S, K), F(0)) THEN "ValueError"
    ELSE ""

\* lines 267-288: moneyness percentage and status
Moneyness(underlying_price, strike) ==
    IF QLt(F(0), strike)
    THEN QMul(QDiv(QSub(underlying_price, strike), strike), F(100))
    ELSE F(0)

Status(opt_type, moneyness_percent) ==
    IF opt_type = "C"
    THEN IF QLt(ATM_TOLERANCE, moneyness_percent) THEN "ITM"
         ELSE IF QLt(moneyness_percent, QNeg(ATM_TOLERANCE)) THEN "OTM"
         ELSE "ATM"
    ELSE IF QLt(moneyness_percent, QNeg(ATM_TOLERANCE)) THEN "ITM"
         ELSE IF QLt(ATM_TOLERANCE, moneyness_percent) THEN "OTM"
         ELSE "ATM"

\* compute_option_metrics called on the day today: the OptionGreeks it
\* returns, or the exception it raises and the function that raised it
compute_option_metrics(option_symbol, underlying_price, r, q, iv_guess, risk_reward, position_size, stop_underlying, target_underlying, risk_per_trade, today, closed_form) ==
    LET p == parse_option_symbol(option_symbol)
        days_to_expiry == IMax(Ordinal(p.expiry_date) - Ordinal(today), 0)
        T == Q(days_to_expiry, 365)
        sigma == QMax(iv_guess, MIN_IV)
        g == greeks(underlying_price, p.strike, T, QDiv(r, F(100)),
                    QDiv(q, F(100)), sigma, p.option_type, closed_form)
        intrinsic == IF p.option_type = "C"
                     THEN QMax(QSub(underlying_price, p.strike), F(0))
                     ELSE QMax(QSub(p.strike, underlying_price), F(0))
        option_stop ==
            QMax(QSub(g.price, QMul(QAbs(QSub(underlying_price, stop_underlying)),
                                    QAbs(g.delta))),
                 MIN_OPTION_PRICE)
        option_target ==
            QMax(QAdd(g.price, QMul(QAbs(QSub(target_underlying, underlying_price)),
                                    QAbs(g.delta))),
                 QAdd(option_stop, MIN_OPTION_PRICE))
        moneyness_percent == Moneyness(underlying_price, p.strike)
    IN  IF p.raised # ""
        THEN [raised |-> p.raised, in |-> "parse_option_symbol"]
        ELSE IF ~Degenerate(T, sigma) /\ D1Raises(underlying_price, p.strike) # ""
        THEN [raised |-> D1Raises(underlying_price, p.strike), in |-> "greeks"]
        ELSE [raised |-> "", in |-> "",
              option_symbol |-> option_symbol,
              expiry |-> p.expiry_date,
              strike |-> p.strike,
              option_type |-> p.option_type,
              underlying_price |-> underlying_price,
              implied_volatility |-> sigma,
              option_price |-> g.price,
              delta |-> g.delta, gamma |-> g.gamma, theta |-> g.theta,
              vega |-> g.vega, rho |-> g.rho,
              intrinsic_value |-> intrinsic,
              time_value |-> QMax(QSub(g.price, intrinsic), F(0)),
              entry_price |-> g.price,
              stop_price |-> option_stop,
              target_price |-> option_target,
              risk_reward |-> risk_reward,
              position_size |-> position_size,
              moneyness_percent |-> moneyness_percent,
              status |-> Status(p.option_type, moneyness_percent)]

\* a ticker of the underlying NIFTY
NiftyTicker(date_str, option_type, strike_str) ==
    NIFTY \o date_str \o <<option_type>> \o strike_str

Expiry2030 == <<"3", "0", "0", "1", "0", "1">>

Expiry2020 == <<"2", "0", "0", "1", "0", "1">>

\* tickers in the documented format, live and expired
WellFormedTickers ==
    {NiftyTicker(Expiry2030, "C", IntToStr(24000)),
     NiftyTicker(Expiry2030, "P", IntToStr(24000)),
     NiftyTicker(Expiry2020, "P", IntToStr(24000)),
     BANKNIFTY \o Expiry2030 \o <<"C">> \o IntToStr(45000)}

\* tickers with an invalid encoding or a strike that is not positive
MalformedTickers ==
    {NiftyTicker(Expiry2030, "C", IntToStr(0)),
     NiftyTicker(Expiry2030, "P", IntToStr(-100)),
     NiftyTicker(Expiry2020, "C", IntToStr(0)),
     NiftyTicker(Expiry2030, "X", IntToStr(24000)),
     NiftyTicker(<<"3", "0", "1", "3", "0", "1">>, "C", IntToStr(100)),
     NiftyTicker(Expiry2030, "C", <<"a", "b", "c">>),
     NiftyTicker(Expiry2030, "C", <<>>),
     NIFTY}

\* arguments of compute_option_metrics (routers/greeks.py lines 242-253)
MetricsRequests ==
    [option_symbol : WellFormedTickers \cup MalformedTickers,
     underlying_price : {F(100), F(24000), F(24500)},
     r : {F(6)}, q : {F(0)},
     iv_guess : {F(0), Q(1, 5)},
     risk_reward : {F(2)}, position_size : {1},
     stop_underlying : {F(23900)}, target_underlying : {F(24200)},
     risk_per_trade : {F(1000)},
     today : Todays]

InitMetrics ==
    /\ request \in {<<a>> : a \in MetricsRequests}
    /\ ticker = <<>>
    /\ parsed = <<>>
    /\ option_metrics = <<>>
    /\ pc = "idle" /\ candles = <<>> /\ levels_daily = <<>> /\ user_settings = <<>>
    /\ inputs = <<>> /\ blocks = <<>> /\ args = <<>> /\ outcome = "none"
    /\ now = 0 /\ calls = <<>>
    /\ LevelsIdle /\ IndicatorsIdle /\ PricingIdle
    /\ StoreIdle /\ WsIdle /\ BacktestIdle

\* a call compute_option_metrics(option_symbol, underlying_price, ...)
ComputeOptionMetrics ==
    /\ option_metrics = <<>>
    /\ \E a \in {request[1]} : \E closed_form \in ClosedForms :
           option_metrics' =
               <<compute_option_metrics(a.option_symbol, a.underlying_price, a.r,
                                        a.q, a.iv_guess, a.risk_reward,
                                        a.position_size, a.stop_underlying,
                                        a.target_underlying, a.risk_per_trade,
                                        a.today, closed_form)>>
    /\ UNCHANGED <<request, ticker, parsed>>
    /\ UNCHANGED <<signalVars, now, calls, levelVars, indicatorVars, pricingVars>>
    /\ UNCHANGED <<storeVars, wsVars, backtestVars>>

NextMetrics == ComputeOptionMetrics

SpecMetrics == InitMetrics /\ [][NextMetrics]_vars

\* ------------------------------------------------------------------------
\* C21
\* ------------------------------------------------------------------------

OptionMetrics == option_metrics[1]

\* the documented format (parse_option_symbol, lines 34-38): an underlying
\* in letters, a date YYMMDD, C or P, and a strike
ValidEncoding(symbol) ==
    \E n \in 1..Len(symbol) :
        /\ \A i \in 1..n : ~IsDigit(symbol[i])
        /\ Len(symbol) >= n + 8
        /\ AllDigits(SubSeq(symbol, n + 1, n + 6))
        /\ ValidDate(2000 + DigitsToNat(SubSeq(symbol, n + 1, n + 2)),
                     DigitsToNat(SubSeq(symbol, n + 3, n + 4)),
                     DigitsToNat(SubSeq(symbol, n + 5, n + 6)))
        /\ symbol[n + 7] \in {"C", "P"}
        /\ IsIntLiteral(SubSeq(symbol, n + 8, Len(symbol)))

StrikeOf(symbol) ==
    IntLiteral(SubSeq(symbol,
                      (CHOOSE i \in 1..Len(symbol) : symbol[i] \in {"C", "P"}) + 1,
                      Len(symbol)))

Malformed(symbol) == ~ValidEncoding(symbol) \/ StrikeOf(symbol) <= 0

\* C21: compute_option_metrics given an invalid option-symbol encoding or a
\* non-positive strike ends in an error raised at its boundary, before any
\* pricing arithmetic runs: it neither returns an OptionMetrics result nor
\* fails with an arithmetic error raised inside the Black-Scholes formulas.
C21_MalformedFailsFast ==
    (option_metrics # <<>> /\ Malformed(Request.option_symbol)) =>
        /\ OptionMetrics.raised # ""
        /\ OptionMetrics.in = "parse_option_symbol"

\* ------------------------------------------------------------------------
\* C27
\* ------------------------------------------------------------------------

\* C27: for every input, including an initial_guess below 1e-4 or above 5.0
\* and the early exits on convergence or zero vega, the value returned by
\* implied_volatility lies within [1e-4, 5.0].
C27_ReturnedWithinBounds ==
    (iv # <<>> /\ iv[1].status = "returned") =>
        /\ QLe(MIN_SIGMA, iv[1].result[1])
        /\ QLe(iv[1].result[1], MAX_SIGMA)

\* ------------------------------------------------------------------------
\* C23
\* ------------------------------------------------------------------------

\* C23: every signal other than None is directionally consistent: a long one
\* has stop_price < entry_price < target_price and a short one has
\* target_price < entry_price < stop_price, for all windows and all pivot
\* levels.
C23_DirectionallyConsistent ==
    (Built /\ Sig.scenario # "None") =>
        /\ Sig.direction = "long" =>
               /\ QLt(Sig.stop_price, Sig.entry_price)
               /\ QLt(Sig.entry_price, Sig.target_price)
        /\ Sig.direction = "short" =>
               /\ QLt(Sig.target_price, Sig.entry_price)
               /\ QLt(Sig.entry_price, Sig.stop_price)

\* ------------------------------------------------------------------------
\* C24
\* ------------------------------------------------------------------------

\* C24: for every signal other than None with entry # stop, the reported
\* risk_reward equals the ratio the reported prices realise,
\* |target - entry| / |entry - stop|, in all three scenarios.
C24_ReportedRiskReward ==
    (Built /\ Sig.scenario # "None" /\ Sig.entry_price # Sig.stop_price) =>
        Sig.risk_reward =
            QDiv(QAbs(QSub(Sig.target_price, Sig.entry_price)),
                 QAbs(QSub(Sig.entry_price, Sig.stop_price)))

\* ------------------------------------------------------------------------
\* generate_signal on windows with untraded bars (volume 0)
\* ------------------------------------------------------------------------

\* the windows of Windows with no volume at all, and those whose quiet
\* prefix is untraded
QuietWindows ==
    {Untraded(w) : w \in Windows}
        \cup {Untraded(Prefix(n, day)) \o tail :
                n \in PrefixLens, day \in {PrevDay, Today}, tail \in Tails}

\* line 36: await get_candles(symbol, timeframe="5m"), on a quiet market
GetQuietCandles ==
    /\ pc = "idle"
    /\ \E w \in QuietWindows : candles' = w
    /\ pc' = "fetched"
    /\ UNCHANGED <<levels_daily, user_settings, inputs, blocks, args, outcome>>
    /\ UNCHANGED <<now, calls, levelVars, indicatorVars, pricingVars>>
    /\ UNCHANGED restVars

NextQuiet == GetQuietCandles \/ NoData \/ Evaluate \/ NextCall

SpecQuiet == Init /\ [][NextQuiet]_vars

\* ------------------------------------------------------------------------
\* C25
\* ------------------------------------------------------------------------

NonNegativeVolumes == \A i \in 1..Len(candles) : candles[i].volume >= 0

\* C25: the confidence computation never divides by zero: for every window
\* with non-negative volumes, whenever the guards of a scenario branch hold,
\* volumeMA > 0 where volume / volumeMA is evaluated.
C25_VolumeMaPositive ==
    (Evaluated /\ NonNegativeVolumes /\ Final.scenario # "None") =>
        /\ QLt(F(0), In.vol_ma)
        /\ Final.error = ""
        /\ outcome # "ZeroDivisionError"

\* a scenario matched on a window with untraded bars
C25_Witness ==
    /\ Evaluated
    /\ Final.scenario # "None"
    /\ \E i \in 1..Len(candles) : candles[i].volume = 0
    /\ QLt(F(0), In.vol_ma)

\* ------------------------------------------------------------------------
\* C26
\* ------------------------------------------------------------------------

\* the Reversal guards of line 224 and line 233 other than high_atr
ReversalLongOtherGuards(in) ==
    low_at_sup(in) /\ QLt(Q(6, 10), wick_short(in)) /\ volume_decline(in)
        /\ in.momentum_long

ReversalShortOtherGuards(in) ==
    high_at_res(in) /\ QLt(Q(6, 10), wick_long(in)) /\ volume_decline(in)
        /\ in.momentum_short

\* the Reversal block is reached with ATR > 0 and everything but high_atr holds
OnlyAtrGuardOpen(in) ==
    /\ PullbackShort(in, PullbackLong(in, TrendBreakout(in, Locals0))).scenario = "None"
    /\ QLt(F(0), in.atr)
    /\ ReversalLongOtherGuards(in) \/ ReversalShortOtherGuards(in)

HighAboveLow(w) == \A i \in 1..Len(w) : w[i].high >= w[i].low

\* C26: the elevated-ATR guard of Reversal can block a signal: there is a
\* window (all bars with high >= low, ATR > 0) in which every other Reversal
\* guard holds but ATR <= 0.8 x the mean of (high - low) over the last 14
\* bars, so that the result is None because of that guard alone.
C26_AtrGuardCanBlock ==
    \E w \in (Windows \cup QuietWindows) \ {<<>>} :
    \E table \in {<<>>} \cup {<<row>> : row \in PersistedLevels} :
        /\ HighAboveLow(w)
        /\ OnlyAtrGuardOpen(Inputs(w, table, <<>>))
        /\ ~high_atr(Inputs(w, table, <<>>))
        /\ Reversal(Inputs(w, table, <<>>),
                    PullbackShort(Inputs(w, table, <<>>),
                                  PullbackLong(Inputs(w, table, <<>>),
                                               TrendBreakout(Inputs(w, table, <<>>),
                                                             Locals0)))).scenario = "None"

\* ------------------------------------------------------------------------
\* The levels store under concurrent requests (server/app/routers/levels.py
\* daily_levels, server/utils/scenario_logic.py generate_signal)
\* The handlers are coroutines of one event loop: a handler runs alone from
\* one await to the next. levels_daily holds the rows of (symbol, today);
\* the table has no unique constraint (server/app/models.py lines 77-92).
\* ------------------------------------------------------------------------

MaxHandlers == 3

HandlerIds == 1..MaxHandlers

\* a daily candle
DailyCandle(high, low, close) == [high |-> high, low |-> low, close |-> close]

\* what get_candles(symbol, timeframe="1d", ...) returns for the last two days
DailyWindows ==
    {<<DailyCandle(BasePrice, BasePrice, BasePrice)>>,
     <<DailyCandle(BasePrice + 7, BasePrice - 7, BasePrice),
       DailyCandle(BasePrice, BasePrice, BasePrice)>>,
     <<DailyCandle(BasePrice + 8, BasePrice - 7, BasePrice - 1),
       DailyCandle(BasePrice + 7, BasePrice - 7, BasePrice),
       DailyCandle(BasePrice, BasePrice, BasePrice)>>}

\* routers/levels.py lines 19-48 for period "daily", given the candles
\* fetched (at least two)
compute_levels_for_period(daily) ==
    LET before == SubSeq(daily, 1, Len(daily) - 1)
        prev_candle == daily[Len(daily) - 1]
        highs == [i \in 1..Len(before) |-> before[i].high]
        lows == [i \in 1..Len(before) |-> before[i].low]
    IN  compute_cpr_levels(F(MaxOf(highs)), F(MinOf(lows)), F(prev_candle.close),
                           NoWidth)

\* the 5-minute windows generate_signal is given: none, yesterday's flat
\* bars, and a single bar of today
StoreWindows ==
    {<<>>, Prefix(MaxPrefix, PrevDay),
     <<Bar(BasePrice, BasePrice + 7, "body", BaseVolume)>>}

\* what a handler of the levels store leaves alone
StoreFrame ==
    /\ UNCHANGED <<pc, candles, user_settings, inputs, blocks, args, outcome>>
    /\ UNCHANGED <<now, calls, pricingVars>>
    /\ UNCHANGED <<levelVars, indicatorVars>>
    /\ UNCHANGED <<optionVars, wsVars, backtestVars>>

HandlerStart(kind) == [kind |-> kind, pc |-> "start", window |-> <<>>, read |-> <<>>]

InitStore ==
    /\ handlers \in [HandlerIds ->
                        {HandlerStart(k) : k \in {"daily_levels", "generate_signal"}}]
    /\ levels_daily \in {<<>>} \cup {<<row>> : row \in PersistedLevels}
    /\ pc = "idle" /\ candles = <<>> /\ user_settings = <<>>
    /\ inputs = <<>> /\ blocks = <<>> /\ args = <<>> /\ outcome = "none"
    /\ now = 0 /\ calls = <<>>
    /\ LevelsIdle /\ IndicatorsIdle /\ PricingIdle
    /\ OptionsIdle /\ WsIdle /\ BacktestIdle

\* daily_levels lines 53-71: the row of today is returned, or the handler
\* awaits compute_levels_for_period
DailyLevelsQuery(h) ==
    /\ handlers[h].kind = "daily_levels"
    /\ handlers[h].pc = "start"
    /\ handlers' =
           [handlers EXCEPT ![h] =
               IF levels_daily # <<>>
               THEN [@ EXCEPT !.pc = "done", !.read = <<levels_daily[1]>>]
               ELSE [@ EXCEPT !.pc = "computing"]]
    /\ UNCHANGED levels_daily
    /\ StoreFrame

\* daily_levels lines 71-100 (compute_levels_for_period lines 28-48): the
\* candles arrive, the levels are computed, inserted and returned
DailyLevelsPersist(h) ==
    /\ handlers[h].kind = "daily_levels"
    /\ handlers[h].pc = "computing"
    /\ \E daily \in DailyWindows :
           IF Len(daily) < 2
           THEN /\ handlers' = [handlers EXCEPT ![h].pc = "HTTPException"]
                /\ UNCHANGED levels_daily
           ELSE /\ levels_daily' = Append(levels_daily,
                                          compute_levels_for_period(daily))
                /\ handlers' =
                       [handlers EXCEPT
                           ![h].pc = "done",
                           ![h].read = <<compute_levels_for_period(daily)>>]
    /\ StoreFrame

\* generate_signal lines 36-52: await get_candles; without candles the
\* no-data Signal is built and no levels are read
GenerateSignalFetch(h) ==
    /\ handlers[h].kind = "generate_signal"
    /\ handlers[h].pc = "start"
    /\ \E w \in StoreWindows :
           handlers' = [handlers EXCEPT
                           ![h].window = w,
                           ![h].pc = IF w = <<>> THEN "done" ELSE "fetched"]
    /\ UNCHANGED levels_daily
    /\ StoreFrame

\* generate_signal lines 53-277, which has no further await: the row of
\* today is read, or the levels are computed from the window and inserted
GenerateSignalLevels(h) ==
    /\ handlers[h].kind = "generate_signal"
    /\ handlers[h].pc = "fetched"
    /\ handlers' =
           [handlers EXCEPT
               ![h].pc = "done",
               ![h].read = <<LevelEntry(handlers[h].window, levels_daily)>>]
    /\ levels_daily' = LevelsAfter(handlers[h].window, levels_daily)
    /\ StoreFrame

NextStore ==
    \E h \in HandlerIds :
        \/ DailyLevelsQuery(h)
        \/ DailyLevelsPersist(h)
        \/ GenerateSignalFetch(h)
        \/ GenerateSignalLevels(h)

SpecStore == InitStore /\ [][NextStore]_vars

\* ------------------------------------------------------------------------
\* C22
\* ------------------------------------------------------------------------

\* C22: after any interleaving of concurrent daily_levels requests and
\* generate_signal calls for one symbol on one date, the store holds at most
\* one LevelsDaily row for that (symbol, date), and every call of that day
\* reads the same pivot levels.
C22_OneRowSameLevels ==
    /\ Len(levels_daily) <= 1
    /\ \A g, h \in HandlerIds :
           (handlers[g].read # <<>> /\ handlers[h].read # <<>>) =>
               handlers[g].read = handlers[h].read

\* ------------------------------------------------------------------------
\* The WebSocket manager (server/app/websocket_manager.py)
\* channels is the dict of the manager: a function from the channel names
\* that are keys to their sets of connections. The coroutines run on one
\* event loop, so each step between two awaits is atomic.
\* ------------------------------------------------------------------------

MaxBroadcasts == 2

\* the WebSocket objects of two clients
WebSockets == {"ws1", "ws2"}

\* two of the channel names of routers/ws.py (lines 86 and 97)
Channels == {"price", "signal"}

\* self.channels.get(channel, set())
ChannelGet(registry, channel) ==
    IF channel \in DOMAIN registry THEN registry[channel] ELSE {}

\* line 27: self.channels.setdefault(channel, set()).add(websocket)
Register(registry, websocket, channel) ==
    [c \in DOMAIN registry \cup {channel} |->
        IF c = channel THEN ChannelGet(registry, channel) \cup {websocket}
        ELSE registry[c]]

\* a variant of disconnect that leaves the key of an emptied channel
disconnectKeepsEmptyKey(registry, websocket, channel) ==
    IF channel \in DOMAIN registry /\ websocket \in registry[channel]
    THEN [registry EXCEPT ![channel] = @ \ {websocket}]
    ELSE registry

\* lines 29-34
disconnect(registry, websocket, channel) ==
    IF channel \in DOMAIN registry /\ websocket \in registry[channel]
    THEN IF registry[channel] \ {websocket} = {}
         THEN [c \in DOMAIN registry \ {channel} |-> registry[c]]
         ELSE [registry EXCEPT ![channel] = @ \ {websocket}]
    ELSE registry

\* list(a set): the elements once each, in some order
Listings(S) ==
    {order \in [1..Cardinality(S) -> S] :
        \A i, j \in 1..Cardinality(S) : order[i] = order[j] => i = j}

\* what the manager's operations leave alone
WsFrame ==
    /\ UNCHANGED <<signalVars, now, calls, levelVars, indicatorVars, pricingVars>>
    /\ UNCHANGED <<optionVars, storeVars, backtestVars>>

\* line 22: the manager starts without channels
InitWs ==
    /\ channels = <<>>
    /\ broadcasts = <<>>
    /\ pc = "idle" /\ candles = <<>> /\ levels_daily = <<>> /\ user_settings = <<>>
    /\ inputs = <<>> /\ blocks = <<>> /\ args = <<>> /\ outcome = "none"
    /\ now = 0 /\ calls = <<>>
    /\ LevelsIdle /\ IndicatorsIdle /\ PricingIdle
    /\ OptionsIdle /\ StoreIdle /\ BacktestIdle

\* connect, lines 24-27: once accept() has returned the socket is registered
Connect(websocket, channel) ==
    /\ channels' = Register(channels, websocket, channel)
    /\ UNCHANGED broadcasts
    /\ WsFrame

\* disconnect, lines 29-34 (called by _handle_ws when the client is gone)
Disconnect(websocket, channel) ==
    /\ channels' = disconnect(channels, websocket, channel)
    /\ UNCHANGED broadcasts
    /\ WsFrame

\* broadcast, lines 42-43: the connections of the channel are copied into a
\* list; registered records the set they were copied from. With no
\* connection the call returns at once.
BroadcastStart(channel) ==
    /\ Len(broadcasts) < MaxBroadcasts
    /\ \E websockets \in Listings(ChannelGet(channels, channel)) :
           broadcasts' = Append(broadcasts,
               [channel |-> channel,
                registered |-> ChannelGet(channels, channel),
                websockets |-> websockets,
                index |-> 1,
                attempted |-> {},
                failed |-> {},
                pc |-> IF websockets = <<>> THEN "returned" ELSE "sending"])
    /\ UNCHANGED channels
    /\ WsFrame

\* broadcast, lines 43-48: one turn of the loop; send_text returns or
\* raises, and a raise drops the connection from the channel
BroadcastSend(i) ==
    /\ i \in 1..Len(broadcasts)
    /\ broadcasts[i].pc = "sending"
    /\ \E sent \in BOOLEAN :
         \E connection \in {broadcasts[i].websockets[broadcasts[i].index]} :
           /\ channels' = IF sent THEN channels
                          ELSE disconnect(channels, connection, broadcasts[i].channel)
           /\ broadcasts' =
                  [broadcasts EXCEPT
                      ![i].attempted = @ \cup {connection},
                      ![i].failed = IF sent THEN @ ELSE @ \cup {connection},
                      ![i].index = @ + 1,
                      ![i].pc = IF broadcasts[i].index = Len(broadcasts[i].websockets)
                                THEN "returned" ELSE "sending"]
    /\ WsFrame

NextWs ==
    \/ \E websocket \in WebSockets, channel \in Channels : Connect(websocket, channel)
    \/ \E websocket \in WebSockets, channel \in Channels : Disconnect(websocket, channel)
    \/ \E channel \in Channels : BroadcastStart(channel)
    \/ \E i \in 1..MaxBroadcasts : BroadcastSend(i)

SpecWs == InitWs /\ [][NextWs]_vars

\* ------------------------------------------------------------------------
\* C28
\* ------------------------------------------------------------------------

\* no key of the dict maps to an empty set
NoEmptyChannel == \A c \in DOMAIN channels : channels[c] # {}

\* every finished broadcast has attempted every connection that was
\* registered on its channel when it started, whatever failed on the way
DeliveredToAll ==
    \A i \in 1..Len(broadcasts) :
        /\ broadcasts[i].failed \subseteq broadcasts[i].attempted
        /\ broadcasts[i].pc = "returned" =>
               broadcasts[i].attempted = broadcasts[i].registered

\* a step in which a send of broadcast i fails takes the connection off the
\* channel of the broadcast and changes no other channel
FailedSendDropsHere ==
    \A i \in 1..Len(broadcasts) :
        broadcasts'[i].failed # broadcasts[i].failed =>
            \A connection \in broadcasts'[i].failed \ broadcasts[i].failed :
                /\ connection \notin ChannelGet(channels', broadcasts[i].channel)
                /\ \A c \in Channels \ {broadcasts[i].channel} :
                       ChannelGet(channels', c) = ChannelGet(channels, c)

\* C28: under every interleaving of connect, disconnect and broadcast, a
\* broadcast attempts delivery to every connection registered on its channel
\* when it started; a failed send removes the connection from that channel
\* and from no other and does not stop the remaining deliveries; and no
\* channel key ever maps to an empty set.
C28_BroadcastDelivers ==
    /\ [](NoEmptyChannel /\ DeliveredToAll)
    /\ [][FailedSendDropsHere]_vars

\* a broadcast to two connections has returned although its first send
\* failed; the failed connection is off the channel and still on another one
C28_Witness ==
    \E i \in 1..Len(broadcasts) :
        /\ broadcasts[i].pc = "returned"
        /\ Len(broadcasts[i].websockets) >= 2
        /\ broadcasts[i].websockets[1] \in broadcasts[i].failed
        /\ broadcasts[i].websockets[1] \notin ChannelGet(channels, broadcasts[i].channel)
        /\ \E c \in Channels \ {broadcasts[i].channel} :
               broadcasts[i].websockets[1] \in ChannelGet(channels, c)

\* ------------------------------------------------------------------------
\* The backtest (server/app/routers/backtest.py run_backtest)
\* Prices, quantities and equity are integers here; the arithmetic of the
\* loop is exact on them.
\* ------------------------------------------------------------------------

MaxCandles == 3

\* server/app/utils/indicators.py line 146: compute_indicator_series(candles)
IndicatorSeriesParameters == 1

\* server/app/utils/signals.py line 111: compute_indicator_series(symbol, timeframe)
IndicatorSeriesArguments == 2

\* the closes of the historical candles
BacktestCloses == {BasePrice - 1, BasePrice, BasePrice + 1}

\* what get_historical_candles returns: up to MaxCandles candles, in time order
HistoricalCandles ==
    UNION {[1..n -> BacktestCloses] : n \in 0..MaxCandles}

InitialCapitals == {0, 1000, 100000}

\* server/app/utils/signals.py generate_signal (lines 84-159): what a call
\* returns or raises. Line 111 is its first statement; a call with the
\* wrong number of positional arguments raises TypeError.
generate_signal ==
    IF IndicatorSeriesArguments # IndicatorSeriesParameters
    THEN {[raised |-> "TypeError"]}
    ELSE {[raised |-> "", direction |-> dir, position_size |-> size] :
              dir \in {"BUY", "SELL", "NEUTRAL"}, size \in 1..2}

\* lines 86 and 104
Pnl(position, price) == (price - position.entry_price) * position.quantity

\* lines 73-100: one turn of the loop, given the signal
LoopBody(run, result) ==
    LET price == run.candles[run.index]
        after ==
            IF result.direction = "BUY" /\ run.position = <<>>
            THEN [run EXCEPT
                     !.position = <<[entry_time |-> run.index,
                                     entry_price |-> price,
                                     quantity |-> result.position_size]>>,
                     !.opened = @ + 1]
            ELSE IF result.direction = "SELL" /\ run.position # <<>>
            THEN [run EXCEPT
                     !.trades = Append(@,
                         [entry_time |-> run.position[1].entry_time,
                          exit_time |-> run.index,
                          entry_price |-> run.position[1].entry_price,
                          exit_price |-> price,
                          quantity |-> run.position[1].quantity,
                          pnl |-> Pnl(run.position[1], price)]),
                     !.equity = @ + Pnl(run.position[1], price),
                     !.position = <<>>]
            ELSE run
    IN  [after EXCEPT
            !.equity_curve = Append(@, [time |-> run.index, value |-> after.equity]),
            !.index = @ + 1]

\* lines 101-117: a trade closes the open position at the last candle (the
\* local position keeps its value) and the result is returned
FinalClose(run) ==
    IF run.position # <<>> /\ run.candles # <<>>
    THEN LET final_price == run.candles[Len(run.candles)]
             pnl == Pnl(run.position[1], final_price)
         IN  [run EXCEPT
                 !.trades = Append(@,
                     [entry_time |-> run.position[1].entry_time,
                      exit_time |-> Len(run.candles),
                      entry_price |-> run.position[1].entry_price,
                      exit_price |-> final_price,
                      quantity |-> run.position[1].quantity,
                      pnl |-> pnl]),
                 !.equity = @ + pnl,
                 !.equity_curve = Append(@, [time |-> Len(run.candles),
                                             value |-> run.equity + pnl]),
                 !.pc = "returned"]
    ELSE [run EXCEPT !.pc = "returned"]

\* what run_backtest leaves alone
BacktestFrame ==
    /\ UNCHANGED <<signalVars, now, calls, levelVars, indicatorVars, pricingVars>>
    /\ UNCHANGED <<optionVars, storeVars, wsVars>>

\* lines 34-66: the request has arrived. position is <<>> for None; opened
\* counts the positions opened so far.
InitBacktest ==
    /\ backtest \in {[pc |-> "start", initial_capital |-> capital, candles |-> <<>>,
                      index |-> 1, equity |-> capital, equity_curve |-> <<>>,
                      trades |-> <<>>, position |-> <<>>, opened |-> 0] :
                        capital \in InitialCapitals}
    /\ pc = "idle" /\ candles = <<>> /\ levels_daily = <<>> /\ user_settings = <<>>
    /\ inputs = <<>> /\ blocks = <<>> /\ args = <<>> /\ outcome = "none"
    /\ now = 0 /\ calls = <<>>
    /\ LevelsIdle /\ IndicatorsIdle /\ PricingIdle
    /\ OptionsIdle /\ StoreIdle /\ WsIdle

\* lines 67-71
GetHistoricalCandles ==
    /\ backtest.pc = "start"
    /\ \E fetched \in HistoricalCandles :
           backtest' = [backtest EXCEPT !.candles = fetched, !.pc = "loop"]
    /\ BacktestFrame

\* lines 72-100: one candle; an exception of generate_signal ends the run
LoopOverCandle ==
    /\ backtest.pc = "loop"
    /\ backtest.index <= Len(backtest.candles)
    /\ \E result \in generate_signal :
           backtest' = IF result.raised # ""
                       THEN [backtest EXCEPT !.pc = result.raised]
                       ELSE LoopBody(backtest, result)
    /\ BacktestFrame

\* lines 101-117
Return ==
    /\ backtest.pc = "loop"
    /\ backtest.index > Len(backtest.candles)
    /\ backtest' = FinalClose(backtest)
    /\ BacktestFrame

NextBacktest == GetHistoricalCandles \/ LoopOverCandle \/ Return

SpecBacktest == InitBacktest /\ [][NextBacktest]_vars

\* ------------------------------------------------------------------------
\* C29
\* ------------------------------------------------------------------------

RECURSIVE SumPnl(_)
SumPnl(trades) == IF trades = <<>> THEN 0 ELSE Head(trades).pnl + SumPnl(Tail(trades))

\* C29: in run_backtest at most one position is open at a time and every
\* position opened is closed exactly once, by a SELL or at the final candle;
\* a run over the candles ends with the result returned, every opened
\* position among the returned trades, and the last equity-curve value equal
\* to initial_capital plus the sum of pnl over the returned trades.
C29_ClosedAndBalanced ==
    /\ Len(backtest.position) <= 1
    /\ backtest.pc \in {"start", "loop"} =>
           backtest.opened = Len(backtest.trades) + Len(backtest.position)
    /\ (backtest.pc \notin {"start", "loop"} /\ backtest.candles # <<>>) =>
           /\ backtest.pc = "returned"
           /\ backtest.opened = Len(backtest.trades)
           /\ backtest.equity_curve # <<>>
           /\ backtest.equity_curve[Len(backtest.equity_curve)].value =
                  backtest.initial_capital + SumPnl(backtest.trades)
====
